---------------------------- MODULE Spec2Model ----------------------------
(***************************************************************************)
(* A model of the recursive folder/case aggregation layer of mcp_testmo    *)
(* (tools/composite.py), of the pagination loops and the batch methods of  *)
(* the client (client.py) and of the shared client handle of the server    *)
(* (server.py).                                                            *)
(*                                                                         *)
(* Python values are modelled as follows.                                  *)
(*   int | None        an integer, None being the sentinel below           *)
(*   str               a sequence of one-character strings                 *)
(*   list              a sequence                                          *)
(*   dict              a function from keys to values                      *)
(*   a dynamically typed value (a case field, a filter argument)           *)
(*                     a record [t |-> tag, v |-> payload]                 *)
(***************************************************************************)
EXTENDS Integers, Sequences, FiniteSets, TLC

VARIABLES
    \* ---- the folder-index functions applied to drawn inputs
    folders,      \* all_folders: the flat folder list
    rootId,       \* root_id / folder_id argument
    subtreeArg,   \* subtree_ids argument of _build_folder_tree
    applied,      \* which function has been applied ("none" before)
    subtreeOut,   \* result of _collect_subtree
    pathOut,      \* result of _get_folder_path
    treeOut,      \* result of _build_folder_tree
    \* ---- the compound filter applied to drawn inputs
    cases,          \* cases: the list of case dicts
    customFilters,  \* custom_filters
    matchMode,      \* match_mode
    arrayFilters,   \* array_filters
    issueKey,       \* issue_key
    filterApplied,  \* whether _apply_client_filters has been applied
    filterOut,      \* result of _apply_client_filters
    \* ---- one tool request against the remote service
    remoteFolders,  \* the folders the remote holds for the project
    op,             \* the tool invoked ("none" before)
    args,           \* its arguments
    pc,             \* where the handler stands
    page,           \* page of the running pagination loop
    acc,            \* all_folders / all_cases of the running pagination loop
    allFolders,     \* all_folders of the handler
    subtreeIds,     \* subtree_ids of the handler
    fidx,           \* position of fid in sorted(subtree_ids)
    allCases,       \* all_cases / all_matches of the handler
    folderSummary,  \* folder_summary of the handler
    toolResult,     \* what the handler returned
    log,            \* history: remote calls, their outcomes and the sleeps
    walkFrom,       \* history: position in log where the running loop began
    lastWalk,       \* history: the pagination loop that completed last
    invocation,     \* how many invocations have begun
    remoteChanged,  \* history: the remote's folders changed since the last invocation
    \* ---- concurrent tool requests sharing the server's client
    globalClient,   \* server._client: "None" or the "TestmoClient"
    httpClient,     \* TestmoClient._client: None or an httpx.AsyncClient
    closedHandles,  \* the httpx.AsyncClients that have been closed
    nextHandle,     \* the next httpx.AsyncClient to be constructed
    reqPc,          \* where each request stands
    reqCalls,       \* how many remote calls each request's tool still makes
    reqHeld,        \* the httpx.AsyncClient carrying a request's call in flight
    reqOutcome,     \* how each request's tool ended
    \* ---- the loops of the folder-index functions, one iteration at a time
    loopOf,       \* the function that is running ("none" before)
    loopDone,     \* whether it has returned
    iterations,   \* iterations made by the running `while` loop
    nodeCalls,    \* calls of build_node made so far
    parentId,     \* parent_id of _get_folder_path
    pathParts,    \* path_parts of _get_folder_path
    callStack,    \* the frames of build_node, the innermost last
    workStack,    \* stack of _collect_subtree
    resultSet,    \* result of _collect_subtree
    pushes,       \* history: how often each id was appended to stack
    \* ---- the three pagination loops against one sequence of page responses
    remoteScript, \* the responses the remote gives, page by page
    walker,       \* each loop: where it stands, page, accumulated list, history
    \* ---- batch_create_cases / batch_delete_cases, request by request
    bulkOp,       \* which of the two runs
    bulkInput,    \* cases / case_ids
    bulkAt,       \* i of the range loop / position of case_id in case_ids
    bulkPc,       \* where the method stands
    collected,    \* all_created / deleted
    errorList,    \* errors
    bulkOut,      \* what the method returned
    bulkLog       \* history: requests, their outcomes and the sleeps

idxVars == <<folders, rootId, subtreeArg, applied, subtreeOut, pathOut, treeOut>>

fltVars == <<cases, customFilters, matchMode, arrayFilters, issueKey,
             filterApplied, filterOut>>

aggVars == <<remoteFolders, op, args, pc, page, acc, allFolders, subtreeIds,
             fidx, allCases, folderSummary, toolResult, log, walkFrom, lastWalk,
             invocation, remoteChanged>>

cliVars == <<globalClient, httpClient, closedHandles, nextHandle, reqPc, reqCalls,
             reqHeld, reqOutcome>>

loopVars == <<loopOf, loopDone, iterations, nodeCalls, parentId, pathParts,
              callStack, workStack, resultSet, pushes>>

wkVars == <<remoteScript, walker>>

bulkVars == <<bulkOp, bulkInput, bulkAt, bulkPc, collected, errorList, bulkOut, bulkLog>>

vars == <<idxVars, fltVars, aggVars, cliVars, loopVars, wkVars, bulkVars>>

\* What the folder-index functions leave alone.
OtherThanIndex == <<fltVars, aggVars, cliVars, loopVars, wkVars, bulkVars>>

\* What the compound filter leaves alone.
OtherThanFilter == <<idxVars, aggVars, cliVars, loopVars, wkVars, bulkVars>>

\* What a tool request leaves alone.
OtherThanRequest == <<idxVars, fltVars, cliVars, loopVars, wkVars, bulkVars>>

\* What the requests sharing the client leave alone.
OtherThanClient == <<idxVars, fltVars, aggVars, loopVars, wkVars, bulkVars>>

\* What the loops of the folder-index functions leave alone.
OtherThanLoops == <<fltVars, aggVars, cliVars, wkVars, bulkVars>>

\* What the batch methods leave alone.
OtherThanBulk == <<idxVars, fltVars, aggVars, cliVars, loopVars, wkVars>>

\* What the pagination loops run side by side leave alone.
OtherThanWalkers == <<idxVars, fltVars, aggVars, cliVars, loopVars, bulkVars>>

----------------------------------------------------------------------------
(* Bounds *)

\* Folder ids are 1..MaxFolders; MaxFolders + 1 is an id no folder carries.
MaxFolders == 3

\* The longest case list handed to the compound filter.
MaxCases == 2

\* The remote answers at most MaxPages pages to one case listing or search.
MaxPages == 2

\* The remote puts FolderPageSize folders on a page of the folder listing.
FolderPageSize == 2

\* The tool requests in flight at once.
MaxRequests == 2

\* The most remote calls one request's tool makes.
MaxCalls == 2

\* The invocations of a tool made one after another.
MaxInvocations == 2

\* The iterations a `while` loop of the folder index is followed for: more
\* than a loop over acyclic data of MaxFolders folders can make.
MaxSteps == MaxFolders + 2

\* The depth the recursion of build_node is followed to.
MaxDepth == MaxFolders + 2

\* The longest case list handed to batch_create_cases: three batches.
MaxSubmitted == 201

\* The longest id list handed to batch_delete_cases.
MaxDeleted == 3

\* The longest sequence of page responses that ends with a null next_page.
MaxScript == 3

\* The pages a loop is followed for when the remote never answers a null
\* next_page.
MaxWalk == MaxScript + 1

----------------------------------------------------------------------------
(* Python values *)

\* Python's None where an int is expected (parent_id, folder_id, next_page).
None == -1

\* Truthiness of an int-or-None value: `if x`, `x or 0`, `while parent_id and`.
Truthy(x) == x # None /\ x # 0

\* `x or 0`
OrZero(x) == IF Truthy(x) THEN x ELSE 0

Range(s) == {s[i] : i \in DOMAIN s}

\* str(n) for a non-negative int, as a sequence of characters.
Digits == <<"0", "1", "2", "3", "4", "5", "6", "7", "8", "9">>

RECURSIVE str(_)
str(n) == IF n < 10 THEN <<Digits[n + 1]>> ELSE str(n \div 10) \o <<Digits[(n % 10) + 1]>>

\* sep.join(parts) on strings
RECURSIVE join(_, _)
join(sep, parts) ==
    IF parts = <<>> THEN <<>>
    ELSE IF Len(parts) = 1 THEN parts[1]
    ELSE parts[1] \o sep \o join(sep, Tail(parts))

\* The separator of _get_folder_path: " / "
PathSep == <<" ", "/", " ">>

\* Dynamically typed values.
NoneV == [t |-> "none", v |-> 0]
IntV(n) == [t |-> "int", v |-> n]
StrV(s) == [t |-> "str", v |-> s]
ListV(s) == [t |-> "list", v |-> s]
DictV(d) == [t |-> "dict", v |-> d]

\* Truth value of a dynamically typed value: `if custom_filters:`.
TruthyV(x) ==
    CASE x.t = "none" -> FALSE
      [] x.t = "int"  -> x.v # 0
      [] x.t = "str"  -> x.v # <<>>
      [] x.t = "list" -> x.v # <<>>
      [] x.t = "dict" -> DOMAIN x.v # {}

\* dict.get(key): None for a missing key.
Get(d, k) == IF k \in DOMAIN d THEN d[k] ELSE NoneV

\* dict.get(key, default)
GetOr(d, k, default) == IF k \in DOMAIN d THEN d[k] ELSE default

\* d[key] = value on a dict
Put(d, k, x) == [key \in DOMAIN d \cup {k} |-> IF key = k THEN x ELSE d[key]]

Uppers == <<"A", "B", "C", "D", "E", "F", "G", "H", "I", "J", "K", "L", "M",
            "N", "O", "P", "Q", "R", "S", "T", "U", "V", "W", "X", "Y", "Z">>

Lowers == <<"a", "b", "c", "d", "e", "f", "g", "h", "i", "j", "k", "l", "m",
            "n", "o", "p", "q", "r", "s", "t", "u", "v", "w", "x", "y", "z">>

\* str.lower()
lower(s) ==
    [i \in DOMAIN s |->
        IF \E j \in DOMAIN Uppers : Uppers[j] = s[i]
        THEN Lowers[CHOOSE j \in DOMAIN Uppers : Uppers[j] = s[i]]
        ELSE s[i]]

\* `a in b` on two strings
InStr(a, b) ==
    \E i \in 0..(Len(b) - Len(a)) : SubSeq(b, i + 1, i + Len(a)) = a

----------------------------------------------------------------------------
(* Folder index: tools/composite.py *)

\* dict.get(key, []) on a dict of lists
GetList(d, k) == IF k \in DOMAIN d THEN d[k] ELSE <<>>

\* children_map of _collect_subtree: parent id (missing/None/0 normalised to
\* 0) -> the ids of its children, in list order.
collect_children_map(all_folders) ==
    [pid \in {OrZero(all_folders[i].parent_id) : i \in DOMAIN all_folders} |->
        LET kids == SelectSeq(all_folders, LAMBDA f: OrZero(f.parent_id) = pid)
        IN  [i \in 1..Len(kids) |-> kids[i].id]]

\* A traversal that adds the children of the popped id without pushing them.
RECURSIVE collect_loop_no_push(_, _, _)
collect_loop_no_push(children_map, result, stack) ==
    IF stack = <<>> THEN result
    ELSE LET current  == stack[Len(stack)]
             popped   == SubSeq(stack, 1, Len(stack) - 1)
             children == GetList(children_map, current)
         IN  collect_loop_no_push(children_map, result \cup Range(children), popped)

\* The `while stack:` loop of _collect_subtree: pop the last element, add and
\* push every child.
RECURSIVE collect_loop(_, _, _)
collect_loop(children_map, result, stack) ==
    IF stack = <<>> THEN result
    ELSE LET current  == stack[Len(stack)]
             popped   == SubSeq(stack, 1, Len(stack) - 1)
             children == GetList(children_map, current)
         IN  collect_loop(children_map, result \cup Range(children), popped \o children)

\* An iteration that pushes only the children not yet in result.
collect_step_unless_visited(children_map, result, stack) ==
    LET current  == stack[Len(stack)]
        popped   == SubSeq(stack, 1, Len(stack) - 1)
        children == GetList(children_map, current)
    IN  [result |-> result \cup Range(children),
         stack  |-> popped \o SelectSeq(children, LAMBDA c: c \notin result)]

\* One iteration of the `while stack:` loop of _collect_subtree.
collect_step(children_map, result, stack) ==
    LET current  == stack[Len(stack)]
        popped   == SubSeq(stack, 1, Len(stack) - 1)
        children == GetList(children_map, current)
    IN  [result |-> result \cup Range(children),
         stack  |-> popped \o children]

\* A traversal whose result set starts empty instead of {root_id}.
collect_subtree_empty_start(all_folders, root_id) ==
    collect_loop(collect_children_map(all_folders), {}, <<root_id>>)

collect_subtree(all_folders, root_id) ==
    collect_loop(collect_children_map(all_folders), {root_id}, <<root_id>>)

\* {f["id"]: f for f in all_folders}: a later folder of the same id wins.
build_folder_map(all_folders) ==
    [fid \in {all_folders[i].id : i \in DOMAIN all_folders} |->
        LET same == SelectSeq(all_folders, LAMBDA f: f.id = fid)
        IN  same[Len(same)]]

\* A walk that appends each ancestor's name instead of inserting it in front.
RECURSIVE path_loop_append(_, _, _)
path_loop_append(folder_map, path_parts, parent_id) ==
    IF Truthy(parent_id) /\ parent_id \in DOMAIN folder_map
    THEN LET parent == folder_map[parent_id]
         IN  path_loop_append(folder_map, path_parts \o <<parent.name>>, parent.parent_id)
    ELSE path_parts

\* The `while parent_id and parent_id in folder_map:` loop of _get_folder_path.
RECURSIVE path_loop(_, _, _)
path_loop(folder_map, path_parts, parent_id) ==
    IF Truthy(parent_id) /\ parent_id \in DOMAIN folder_map
    THEN LET parent == folder_map[parent_id]
         IN  path_loop(folder_map, <<parent.name>> \o path_parts, parent.parent_id)
    ELSE path_parts

\* A loop condition that also stops at a folder whose name is already in
\* path_parts.
path_running_unless_visited(folder_map, path_parts, parent_id) ==
    /\ Truthy(parent_id)
    /\ parent_id \in DOMAIN folder_map
    /\ \A i \in DOMAIN path_parts : path_parts[i] # folder_map[parent_id].name

\* `while parent_id and parent_id in folder_map:`, the condition alone.
path_running(folder_map, path_parts, parent_id) ==
    Truthy(parent_id) /\ parent_id \in DOMAIN folder_map

\* One iteration of that loop.
path_step(folder_map, path_parts, parent_id) ==
    LET parent == folder_map[parent_id]
    IN  [path_parts |-> <<parent.name>> \o path_parts,
         parent_id  |-> parent.parent_id]

get_folder_path(folder_id, folder_map) ==
    IF folder_id \notin DOMAIN folder_map THEN <<>>
    ELSE LET folder == folder_map[folder_id]
         IN  join(PathSep, path_loop(folder_map, <<folder.name>>, folder.parent_id))

\* A children_map that keeps every folder, in subtree_ids or not.
tree_children_map_unfiltered(all_folders, subtree_ids) ==
    [pid \in {OrZero(all_folders[i].parent_id) : i \in DOMAIN all_folders} |->
        SelectSeq(all_folders, LAMBDA f: OrZero(f.parent_id) = pid)]

\* children_map of _build_folder_tree: parent id -> the folders of
\* subtree_ids below it, in list order.
tree_children_map(all_folders, subtree_ids) ==
    LET kept == SelectSeq(all_folders, LAMBDA f: f.id \in subtree_ids)
    IN  [pid \in {OrZero(kept[i].parent_id) : i \in DOMAIN kept} |->
            SelectSeq(kept, LAMBDA f: OrZero(f.parent_id) = pid)]

RECURSIVE build_node(_, _, _)
build_node(folder, children_map, folder_map) ==
    LET children == GetList(children_map, folder.id)
    IN  [id        |-> folder.id,
         name      |-> folder.name,
         parent_id |-> folder.parent_id,
         full_path |-> get_folder_path(folder.id, folder_map),
         children  |-> [i \in 1..Len(children) |->
                           build_node(children[i], children_map, folder_map)]]

\* The None that _build_folder_tree returns for a root absent from the map.
NoTree == [none |-> TRUE]

\* A builder that looks the root up in subtree_ids instead of folder_map.
build_folder_tree_by_subtree(all_folders, subtree_ids, root_id, folder_map) ==
    IF root_id \notin subtree_ids \/ root_id \notin DOMAIN folder_map THEN NoTree
    ELSE build_node(folder_map[root_id],
                    tree_children_map(all_folders, subtree_ids), folder_map)

build_folder_tree(all_folders, subtree_ids, root_id, folder_map) ==
    IF root_id \notin DOMAIN folder_map THEN NoTree
    ELSE build_node(folder_map[root_id],
                    tree_children_map(all_folders, subtree_ids), folder_map)

----------------------------------------------------------------------------
(* Compound filter: tools/composite.py *)

\* A match that compares strings as they are written, capitals included.
match_custom_case_sensitive(case, custom_filters, match_mode) ==
    \A k \in DOMAIN custom_filters.v :
        LET v        == custom_filters.v[k]
            case_val == Get(case, k)
        IN  IF match_mode = "contains" /\ v.t = "str"
            THEN case_val.t = "str" /\ InStr(v.v, case_val.v)
            ELSE case_val = v

\* _match_custom: every entry of custom_filters matches the case.
match_custom(case, custom_filters, match_mode) ==
    \A k \in DOMAIN custom_filters.v :
        LET v        == custom_filters.v[k]
            case_val == Get(case, k)
        IN  IF match_mode = "contains" /\ v.t = "str"
            THEN case_val.t = "str" /\ InStr(lower(v.v), lower(case_val.v))
            ELSE case_val = v

\* A match that wants every acceptable value in the case's list.
match_arrays_all_of(case, array_filters) ==
    \A k \in DOMAIN array_filters.v :
        LET filter_vals == array_filters.v[k]
            case_arr    == Get(case, k)
        IN  /\ case_arr.t = "list"
            /\ \A i \in DOMAIN filter_vals.v : filter_vals.v[i] \in Range(case_arr.v)

\* _match_arrays: for every key the case's list holds any of the values.
match_arrays(case, array_filters) ==
    \A k \in DOMAIN array_filters.v :
        LET filter_vals == array_filters.v[k]
            case_arr    == Get(case, k)
        IN  /\ case_arr.t = "list"
            /\ \E i \in DOMAIN filter_vals.v : filter_vals.v[i] \in Range(case_arr.v)

\* A match that lets a case without an issues field through.
match_issue_missing_passes(case, issue_key) ==
    LET issues == GetOr(case, "issues", ListV(<<>>))
    IN  \/ "issues" \notin DOMAIN case
        \/ /\ issues.t = "list"
           /\ \E i \in DOMAIN issues.v :
               /\ issues.v[i].t = "dict"
               /\ Get(issues.v[i].v, "display_id") = issue_key

\* _match_issue: some dict of the case's issues list has the display_id.
match_issue(case, issue_key) ==
    LET issues == GetOr(case, "issues", ListV(<<>>))
    IN  /\ issues.t = "list"
        /\ \E i \in DOMAIN issues.v :
            /\ issues.v[i].t = "dict"
            /\ Get(issues.v[i].v, "display_id") = issue_key

\* A stage that keeps only the first case that matches.
custom_stage_first_match(result, custom_filters, match_mode) ==
    IF TruthyV(custom_filters)
    THEN LET kept == SelectSeq(result, LAMBDA c: match_custom(c, custom_filters, match_mode))
         IN  IF kept = <<>> THEN <<>> ELSE <<kept[1]>>
    ELSE result

\* `if custom_filters: result = [c for c in result if _match_custom(c)]`
custom_stage(result, custom_filters, match_mode) ==
    IF TruthyV(custom_filters)
    THEN SelectSeq(result, LAMBDA c: match_custom(c, custom_filters, match_mode))
    ELSE result

\* `if array_filters: result = [c for c in result if _match_arrays(c)]`
array_stage(result, array_filters) ==
    IF TruthyV(array_filters)
    THEN SelectSeq(result, LAMBDA c: match_arrays(c, array_filters))
    ELSE result

\* A stage that filters by issue_key also when none is supplied.
issue_stage_always(result, issue_key) ==
    SelectSeq(result, LAMBDA c: match_issue(c, issue_key))

\* `if issue_key: result = [c for c in result if _match_issue(c)]`
issue_stage(result, issue_key) ==
    IF TruthyV(issue_key)
    THEN SelectSeq(result, LAMBDA c: match_issue(c, issue_key))
    ELSE result

\* A filter in which every stage reads the input list, so that the last
\* supplied stage alone decides.
apply_client_filters_from_input(case_list, custom_filters, match_mode, array_filters, issue_key) ==
    IF TruthyV(issue_key) THEN issue_stage(case_list, issue_key)
    ELSE IF TruthyV(array_filters) THEN array_stage(case_list, array_filters)
    ELSE custom_stage(case_list, custom_filters, match_mode)

apply_client_filters(case_list, custom_filters, match_mode, array_filters, issue_key) ==
    issue_stage(
        array_stage(
            custom_stage(case_list, custom_filters, match_mode),
            array_filters),
        issue_key)

----------------------------------------------------------------------------
(* Pagination loops and recursive tools: client.py, tools/composite.py *)

\* per_page of every page request.
PerPage == 100

\* all_folders.extend(folders) / all_cases.extend(cases)
extend(list, items) == list \o items

\* One turn of the loop of TestmoClient.get_all_folders after the page came
\* back: extend, then break on a missing next_page, else page += 1.
get_all_folders_step(all, pg, response) ==
    [all  |-> extend(all, response.result),
     page |-> IF response.next_page = None THEN pg ELSE pg + 1,
     done |-> response.next_page = None]

\* A turn that goes on with the page the response names.
get_all_cases_step_to_next_page(all, pg, response) ==
    [all  |-> extend(all, response.result),
     page |-> IF response.next_page = None THEN pg ELSE response.next_page,
     done |-> response.next_page = None]

\* One turn of the loop of TestmoClient.get_all_cases.
get_all_cases_step(all, pg, response) ==
    [all  |-> extend(all, response.result),
     page |-> IF response.next_page = None THEN pg ELSE pg + 1,
     done |-> response.next_page = None]

\* A turn that puts the page in front of what was fetched before.
search_paginated_step_prepend(all, pg, response) ==
    [all  |-> extend(response.result, all),
     page |-> IF response.next_page = None THEN pg ELSE pg + 1,
     done |-> response.next_page = None]

\* One turn of the loop of _search_paginated.
search_paginated_step(all, pg, response) ==
    [all  |-> extend(all, response.result),
     page |-> IF response.next_page = None THEN pg ELSE pg + 1,
     done |-> response.next_page = None]

\* The three loops, by name.
Walkers == {"get_all_folders", "get_all_cases", "search_paginated"}

\* One turn of the loop named k.
walker_step(k, all, pg, response) ==
    CASE k = "get_all_folders"  -> get_all_folders_step(all, pg, response)
      [] k = "get_all_cases"    -> get_all_cases_step(all, pg, response)
      [] k = "search_paginated" -> search_paginated_step(all, pg, response)

\* A handler that keeps the folder list of an earlier invocation.
fetch_all_folders_cached(earlier, fetched) ==
    IF earlier # <<>> THEN earlier ELSE fetched

\* `all_folders = await client.get_all_folders(project_id)`: the handler's
\* folder list is what this invocation's listing returned, whatever an
\* earlier invocation fetched.
fetch_all_folders(earlier, fetched) == fetched

\* A call that is issued without being awaited: the handler stands before
\* the call still.
after_call_not_awaited(calling) == calling

\* `await self.list_folders(...)`, `await self.list_cases(...)`,
\* `await client.search_cases(...)`: the handler is suspended until the call
\* has ended.
after_call(calling) ==
    CASE calling = "folders_call" -> "folders_wait"
      [] calling = "cases_call"   -> "cases_wait"
      [] calling = "search_call"  -> "search_wait"

\* A remote call that raises is retried: the handler stands before the call
\* again.
after_failure_retry(waiting) ==
    CASE waiting = "folders_wait" -> "folders_call"
      [] waiting = "cases_wait"   -> "cases_call"
      [] waiting = "search_wait"  -> "search_call"

\* No loop and no handler catches what a remote call raises: the exception
\* leaves the handler.
after_failure(waiting) == "raised"

\* An ordering of the ids from the greatest down.
RECURSIVE sorted_descending(_)
sorted_descending(ids) ==
    IF ids = {} THEN <<>>
    ELSE LET greatest == CHOOSE x \in ids : \A y \in ids : x >= y
         IN  <<greatest>> \o sorted_descending(ids \ {greatest})

\* sorted(subtree_ids)
RECURSIVE sorted(_)
sorted(ids) ==
    IF ids = {} THEN <<>>
    ELSE LET least == CHOOSE x \in ids : \A y \in ids : x <= y
         IN  <<least>> \o sorted(ids \ {least})

\* A lookup that finds every folder id.
folder_missing_never(folder_id, folder_map) == FALSE

\* `if folder_id not in folder_map:`
folder_missing(folder_id, folder_map) == folder_id \notin DOMAIN folder_map

\* {"error": f"Folder {folder_id} not found in project {project_id}"}
not_found_error(folder_id, project_id) ==
    [error |-> <<"F", "o", "l", "d", "e", "r", " ">> \o str(folder_id)
               \o <<" ", "n", "o", "t", " ", "f", "o", "u", "n", "d", " ",
                    "i", "n", " ", "p", "r", "o", "j", "e", "c", "t", " ">>
               \o str(project_id)]

\* folder_map[fid]["name"] if fid in folder_map else str(fid)
folder_name_of(fid, folder_map) ==
    IF fid \in DOMAIN folder_map THEN folder_map[fid].name ELSE str(fid)

\* get_folders_recursive after the folder listing.
get_folders_result(folders_got, folder_id) ==
    LET subtree == collect_subtree(folders_got, folder_id)
    IN  [total_folders |-> Cardinality(subtree),
         tree |-> build_folder_tree(folders_got, subtree, folder_id,
                                    build_folder_map(folders_got))]

\* The body of the folder loop that records a summary entry for every
\* folder, also for one without cases.
get_cases_absorb_every_folder(fid, fetched, folder_map, include_path, cases_so_far, summary) ==
    LET folder_name == folder_name_of(fid, folder_map)
        folder_path == IF include_path THEN StrV(get_folder_path(fid, folder_map))
                       ELSE NoneV
        annotated   == [i \in DOMAIN fetched |->
                           LET named == Put(fetched[i], "_folder_name", StrV(folder_name))
                           IN  IF include_path THEN Put(named, "_folder_path", folder_path)
                               ELSE named]
    IN  [all_cases |-> cases_so_far \o annotated,
         folder_summary |->
             Append(summary, [folder_id |-> fid, folder_name |-> folder_name,
                              folder_path |-> folder_path, case_count |-> Len(fetched)])]

\* The body of the folder loop of get_cases_recursive after the folder's
\* cases came back: the summary entry, the annotation, the append.
get_cases_absorb(fid, fetched, folder_map, include_path, cases_so_far, summary) ==
    LET folder_name == folder_name_of(fid, folder_map)
        folder_path == IF include_path THEN StrV(get_folder_path(fid, folder_map))
                       ELSE NoneV
        annotated   == [i \in DOMAIN fetched |->
                           LET named == Put(fetched[i], "_folder_name", StrV(folder_name))
                           IN  IF include_path THEN Put(named, "_folder_path", folder_path)
                               ELSE named]
    IN  [all_cases |-> cases_so_far \o annotated,
         folder_summary |->
             IF fetched # <<>>
             THEN Append(summary, [folder_id |-> fid, folder_name |-> folder_name,
                                   folder_path |-> folder_path, case_count |-> Len(fetched)])
             ELSE summary]

get_cases_result(cases_got, subtree, summary) ==
    [total_cases |-> Len(cases_got),
     total_folders_searched |-> Cardinality(subtree),
     folder_summary |-> summary,
     cases |-> cases_got]

\* has_client_filters
has_client_filters(a) ==
    TruthyV(a.custom_filters) \/ TruthyV(a.array_filters) \/ TruthyV(a.issue_key)

\* folder_cases after `if has_client_filters: folder_cases = _apply_client_filters(...)`
client_filtered(fetched, a) ==
    IF has_client_filters(a)
    THEN apply_client_filters(fetched, a.custom_filters, a.match_mode,
                              a.array_filters, a.issue_key)
    ELSE fetched

\* The body of the folder loop of search_cases_recursive after the folder's
\* search came back: the filters, the summary entry, the annotation.
search_absorb(fid, fetched, folder_map, a, cases_so_far, summary) ==
    LET folder_cases == client_filtered(fetched, a)
        folder_name  == folder_name_of(fid, folder_map)
        folder_path  == StrV(get_folder_path(fid, folder_map))
        annotated    == [i \in DOMAIN folder_cases |->
                            Put(Put(folder_cases[i], "_folder_name", StrV(folder_name)),
                                "_folder_path", folder_path)]
    IN  [all_cases |-> cases_so_far \o annotated,
         folder_summary |->
             IF folder_cases # <<>>
             THEN Append(summary, [folder_id |-> fid, folder_name |-> folder_name,
                                   folder_path |-> folder_path,
                                   match_count |-> Len(folder_cases)])
             ELSE summary]

\* subtree_ids = None of the project-wide search.
NoSubtree == {None}

\* A result that reports the number of folders with a match.
search_result_counts_summary(matches, subtree, folders_got, summary) ==
    [total_matches |-> Len(matches),
     total_folders_searched |-> Len(summary),
     folder_summary |-> summary,
     cases |-> matches]

\* search_cases_recursive: the returned dict.
search_result(matches, subtree, folders_got, summary) ==
    [total_matches |-> Len(matches),
     total_folders_searched |->
         IF subtree # NoSubtree THEN Cardinality(subtree) ELSE Len(folders_got),
     folder_summary |-> summary,
     cases |-> matches]

\* Whether a case's folder_id is a key of folder_map.
InMap(cfid, folder_map) == cfid.t = "int" /\ cfid.v \in DOMAIN folder_map

\* str() of a case's folder_id.
strV(x) == IF x.t = "int" THEN str(x.v) ELSE <<"N", "o", "n", "e">>

\* Project-wide search, `for case in all_cases:` the annotation by the
\* case's own folder_id.
annotate_by_own_folder(case, folder_map) ==
    LET cfid == Get(case, "folder_id")
    IN  IF TruthyV(cfid) /\ InMap(cfid, folder_map)
        THEN Put(Put(case, "_folder_name", StrV(folder_map[cfid.v].name)),
                 "_folder_path", StrV(get_folder_path(cfid.v, folder_map)))
        ELSE Put(Put(case, "_folder_name",
                     StrV(IF TruthyV(cfid) THEN strV(cfid) ELSE <<"r", "o", "o", "t">>)),
                 "_folder_path", StrV(<<>>))

\* A project-wide branch that annotates the cases first and filters them
\* afterwards.
project_wide_matches_annotate_first(fetched, a, folder_map) ==
    client_filtered([i \in DOMAIN fetched |->
                        annotate_by_own_folder(fetched[i], folder_map)], a)

\* Project-wide search: all_matches, the filtered cases with their
\* annotation.
project_wide_matches(fetched, a, folder_map) ==
    LET all_cases == client_filtered(fetched, a)
    IN  [i \in DOMAIN all_cases |-> annotate_by_own_folder(all_cases[i], folder_map)]

\* The keys of folder_counts: case.get("folder_id", 0) of every match.
count_keys(matches) ==
    {GetOr(matches[i], "folder_id", IntV(0)) : i \in DOMAIN matches}

\* sorted(folder_counts.items()) compares the keys: None and an int do not
\* compare, and sorted raises TypeError.
sort_raises(keys) ==
    (\E k \in keys : k.t = "none") /\ (\E k \in keys : k.t = "int")

\* The keys in ascending order (a lone None key sorts trivially).
sorted_keys(keys) ==
    IF \E k \in keys : k.t = "none" THEN <<NoneV>>
    ELSE LET order == sorted({k.v : k \in keys})
         IN  [i \in DOMAIN order |-> IntV(order[i])]

\* A summary with an entry for every folder of the index, whether a match
\* lies in it or not.
summary_by_index(matches, folder_map) ==
    LET keys == sorted(DOMAIN folder_map)
    IN  [i \in DOMAIN keys |->
            [folder_id |-> keys[i],
             folder_name |-> folder_map[keys[i]].name,
             folder_path |-> StrV(get_folder_path(keys[i], folder_map)),
             match_count |-> Cardinality({j \in DOMAIN matches :
                               GetOr(matches[j], "folder_id", IntV(0)) = IntV(keys[i])})]]

\* Project-wide search, `for fid_key, count in sorted(folder_counts.items()):`
summary_by_result(matches, folder_map) ==
    LET keys == sorted_keys(count_keys(matches))
    IN  [i \in DOMAIN keys |->
            LET fid_key == keys[i]
                known   == InMap(fid_key, folder_map)
            IN  [folder_id |-> IF fid_key.t = "int" THEN fid_key.v ELSE None,
                 folder_name |-> IF known THEN folder_map[fid_key.v].name
                                 ELSE strV(fid_key),
                 folder_path |-> StrV(IF known
                                      THEN get_folder_path(fid_key.v, folder_map)
                                      ELSE <<>>),
                 match_count |-> Cardinality({j \in DOMAIN matches :
                               GetOr(matches[j], "folder_id", IntV(0)) = fid_key})]]

----------------------------------------------------------------------------
(* Batch methods: client.py *)

\* TestmoClient.MAX_CASES_PER_REQUEST
MAX_CASES_PER_REQUEST == 100

\* cases[i : i + self.MAX_CASES_PER_REQUEST]
batch_slice(case_list, i) ==
    SubSeq(case_list, i + 1,
           IF i + MAX_CASES_PER_REQUEST < Len(case_list)
           THEN i + MAX_CASES_PER_REQUEST ELSE Len(case_list))

\* batch_num = (i // self.MAX_CASES_PER_REQUEST) + 1
batch_num(i) == (i \div MAX_CASES_PER_REQUEST) + 1

\* create_cases raises ValueError for more than MAX_CASES_PER_REQUEST cases.
create_cases_rejects(case_list) == Len(case_list) > MAX_CASES_PER_REQUEST

\* f"Batch {batch_num}: {e.message}"
batch_error(num, message) ==
    <<"B", "a", "t", "c", "h", " ">> \o str(num) \o <<":", " ">> \o message

\* f"Case {case_id}: {e.message}"
case_error(case_id, message) ==
    <<"C", "a", "s", "e", " ">> \o str(case_id) \o <<":", " ">> \o message

\* `errors if errors else None`
errors_or_none(error_list) == IF error_list # <<>> THEN ListV(error_list) ELSE NoneV

\* A result whose total_created counts the cases submitted.
batch_create_result_counts_submitted(all_created, case_list, error_list) ==
    [result          |-> all_created,
     total_submitted |-> Len(case_list),
     total_created   |-> Len(case_list),
     errors          |-> errors_or_none(error_list)]

\* What batch_create_cases returns.
batch_create_result(all_created, case_list, error_list) ==
    [result          |-> all_created,
     total_submitted |-> Len(case_list),
     total_created   |-> Len(all_created),
     errors          |-> errors_or_none(error_list)]

\* What batch_delete_cases returns.
batch_delete_result(deleted, error_list) ==
    [deleted       |-> deleted,
     total_deleted |-> Len(deleted),
     errors        |-> errors_or_none(error_list)]

\* A handler that lists the id as deleted also when the deletion failed.
delete_failed_still_listed(deleted, error_list, case_id, message) ==
    [deleted |-> Append(deleted, case_id),
     errors  |-> Append(error_list, case_error(case_id, message))]

\* `except TestmoAPIError as e: errors.append(f"Case {case_id}: {e.message}")`
delete_failed(deleted, error_list, case_id, message) ==
    [deleted |-> deleted,
     errors  |-> Append(error_list, case_error(case_id, message))]

----------------------------------------------------------------------------
(* Shared client handle: server.py, client.py *)

\* get_client: `if _client is None: _client = TestmoClient()`
get_client(global_client) ==
    IF global_client = "None" THEN "TestmoClient" ELSE global_client

\* TestmoClient.__aenter__: `self._client = httpx.AsyncClient(...)`, whatever
\* self._client was.
aenter(http_client, fresh) == fresh

\* TestmoClient.client: the handle, or RuntimeError("Client not initialized")
\* when self._client is None.
client_property(http_client) ==
    IF http_client = None THEN [raises |-> "RuntimeError: Client not initialized"]
    ELSE [returns |-> http_client]

\* How httpx.AsyncClient.request ends on a handle: a closed client refuses to
\* send.
send(handle, closed) ==
    IF handle \in closed
    THEN [raises |-> "RuntimeError: the client has been closed"]
    ELSE [returns |-> handle]

\* How a call in flight may end: on an open handle with the response; on a
\* handle closed meanwhile with the response or with a transport error.
receive(handle, closed) ==
    IF handle \in closed THEN {"response", "closed_in_flight"} ELSE {"response"}

----------------------------------------------------------------------------
(* Inputs of the folder-index functions *)

FolderIds == 1..MaxFolders

\* An id that no folder of the list carries.
AbsentId == MaxFolders + 1

\* parent_id: None or 0 for a top-level folder, else an id, that of an
\* absent folder included.
ParentIds == {None, 0} \cup FolderIds \cup {AbsentId}

RootIds == {0} \cup FolderIds \cup {AbsentId}

NameOf(i) == <<"f">> \o str(i)

Folder(i, p) == [id |-> i, name |-> NameOf(i), parent_id |-> p]

Folders == {Folder(i, p) : i \in FolderIds, p \in ParentIds}

\* Whether the walk up from parent p ends within `fuel` steps.
RECURSIVE ChainEnds(_, _, _)
ChainEnds(folder_map, p, fuel) ==
    \/ ~Truthy(p)
    \/ p \notin DOMAIN folder_map
    \/ fuel > 0 /\ ChainEnds(folder_map, folder_map[p].parent_id, fuel - 1)

\* The data model's forests: ids unique, no folder its own ancestor.
IsForest(s) ==
    /\ \A i, j \in DOMAIN s : s[i].id = s[j].id => i = j
    /\ \A i \in DOMAIN s : ChainEnds(build_folder_map(s), s[i].parent_id, Len(s))

FolderLists ==
    {s \in UNION {[1..n -> Folders] : n \in 0..MaxFolders} : IsForest(s)}

\* Folder lists with unique ids in which a folder may be its own ancestor.
LoopFolderLists ==
    {s \in UNION {[1..n -> {Folder(i, p) : i \in FolderIds, p \in ParentIds \ {None}}] :
                      n \in 0..MaxFolders} :
        \A i, j \in DOMAIN s : s[i].id = s[j].id => i = j}

----------------------------------------------------------------------------
(* Inputs of the compound filter *)

KeyA == StrV(<<"K", "1">>)
KeyB == StrV(<<"K", "2">>)
TagX == StrV(<<"x">>)
TagY == StrV(<<"y">>)
TagZ == StrV(<<"z">>)

Issue(key) == DictV([display_id |-> key])

\* A case field is absent (no such key) or holds a value.
Absent == [t |-> "absent", v |-> 0]

RefVals == {Absent, IntV(1), StrV(<<"A", "b">>)}
TagVals == {Absent, StrV(<<"x">>), ListV(<<TagX>>), ListV(<<TagY, TagZ>>)}
IssueVals == {Absent, ListV(<<>>), KeyA, ListV(<<Issue(KeyA)>>), ListV(<<Issue(KeyB)>>)}

\* The case dict with the given id and the fields that are not absent.
Case(id, ref, tags, issues) ==
    LET all == [id |-> IntV(id), custom_references |-> ref, tags |-> tags,
                issues |-> issues]
    IN  [k \in {key \in DOMAIN all : all[key] # Absent} |-> all[k]]

\* Case lists: the case at position i has id i.
CaseLists ==
    UNION {[1..n -> RefVals \X TagVals \X IssueVals] : n \in 0..MaxCases}

MakeCases(shape) ==
    [i \in DOMAIN shape |-> Case(i, shape[i][1], shape[i][2], shape[i][3])]

CustomFilterArgs ==
    {NoneV, DictV(<<>>), DictV([custom_references |-> StrV(<<"a">>)]),
     DictV([custom_references |-> IntV(1)]),
     DictV([custom_references |-> StrV(<<"B">>), id |-> IntV(1)])}
ArrayFilterArgs ==
    {NoneV, DictV([tags |-> ListV(<<TagX, TagY>>)]), DictV([tags |-> ListV(<<TagZ>>)]),
     DictV([tags |-> ListV(<<TagX>>), issues |-> ListV(<<Issue(KeyA)>>)])}
IssueKeyArgs == {NoneV, StrV(<<>>), KeyA}
MatchModes == {"exact", "contains"}

----------------------------------------------------------------------------
(* The remote service and the arguments of a tool request *)

\* project_id of the request.
ProjectId == 1

\* The remote's folder lists: ids 1..n in ascending order, every folder at
\* the top level (parent_id 0) or under a folder of smaller id.
RemoteFolderLists ==
    {[i \in DOMAIN parents |-> Folder(i, parents[i])] :
        parents \in {ps \in UNION {[1..n -> 0..MaxFolders] : n \in 0..MaxFolders} :
                        \A i \in DOMAIN ps : ps[i] < i}}

\* The page of the folder listing that the remote answers.
RemoteFoldersPage(pg) ==
    LET n    == Len(remoteFolders)
        from == (pg - 1) * FolderPageSize + 1
        to   == IF pg * FolderPageSize < n THEN pg * FolderPageSize ELSE n
    IN  [result |-> SubSeq(remoteFolders, from, to),
         next_page |-> IF to < n THEN pg + 1 ELSE None]

\* A case of the remote: the fields that are not absent.
RemoteCase(id, folder, ref) ==
    LET all == [id |-> IntV(id), folder_id |-> folder, custom_references |-> ref]
    IN  [k \in {key \in DOMAIN all : all[key] # Absent} |-> all[k]]

\* The id of the case on page pg of the listing or search of a folder.
CaseId(folder_id, pg) == OrZero(folder_id) * MaxPages + pg

\* What a page of cases may hold: nothing or one case. A case listed or
\* searched under a folder carries that folder's id; one found project-wide
\* carries any folder_id, or none.
RemoteResults(api, folder_id, pg) ==
    {<<>>} \cup
    {<<RemoteCase(CaseId(folder_id, pg), folder, ref)>> :
        folder \in (IF folder_id # None THEN {IntV(folder_id)}
                    ELSE {Absent, NoneV, IntV(0), IntV(1), IntV(AbsentId)}),
        ref \in (IF api = "list_cases" THEN {Absent} ELSE {Absent, IntV(1)})}

\* The answers the remote may give to a page request for cases.
RemoteCasePages(api, folder_id, pg) ==
    {[result |-> r, next_page |-> nx] :
        r \in RemoteResults(api, folder_id, pg),
        nx \in {None} \cup (IF pg < MaxPages THEN {pg + 1} ELSE {})}

\* custom_filters that name the annotation key: {"_folder_name": "root"}
RootNameFilter == DictV("_folder_name" :> StrV(<<"r", "o", "o", "t">>))

Ops == {"get_folders_recursive", "get_cases_recursive", "search_cases_recursive"}

\* folder_id is required by the first two tools and may be omitted in a
\* search.
FolderIdArgs(o) ==
    (0..AbsentId) \cup (IF o = "search_cases_recursive" THEN {None} ELSE {})

ArgsFor(o) ==
    {[project_id |-> ProjectId, folder_id |-> f, include_folder_path |-> ip,
      custom_filters |-> cf, match_mode |-> "exact", array_filters |-> NoneV,
      issue_key |-> NoneV] :
        f \in FolderIdArgs(o),
        ip \in (IF o = "get_cases_recursive" THEN BOOLEAN ELSE {TRUE}),
        cf \in (IF o = "search_cases_recursive"
                THEN {NoneV, DictV([custom_references |-> IntV(1)]), RootNameFilter}
                ELSE {NoneV})}

NoArgs == [project_id |-> ProjectId, folder_id |-> None, include_folder_path |-> TRUE,
           custom_filters |-> NoneV, match_mode |-> "exact", array_filters |-> NoneV,
           issue_key |-> NoneV]

\* The handler has not returned.
NoResult == [pending |-> TRUE]

NoWalk == [api |-> "none", folder_id |-> None, from |-> 1, to |-> 0, returned |-> <<>>]

\* History records.
CallEvent(api, project_id, folder_id, pg) ==
    [e |-> "call", api |-> api, project_id |-> project_id, folder_id |-> folder_id,
     page |-> pg, per_page |-> PerPage]
RespEvent(response) ==
    [e |-> "resp", result |-> response.result, next_page |-> response.next_page]
FailEvent == [e |-> "fail"]
SleepEvent(at) == [e |-> "sleep", at |-> at]

\* The items on page pg of a scripted response.
ScriptItem(pg) == 10 * pg

\* The sequences of page responses: every page holds nothing or one item;
\* next_page is null on the last page and 0 or the next page number on the
\* pages before.
ResponseScripts ==
    {s \in UNION {[1..n -> [result : {<<>>} \cup {<<ScriptItem(p)>> : p \in 1..MaxScript},
                            next_page : {None} \cup (0..MaxScript)]] : n \in 1..MaxScript} :
        \A p \in DOMAIN s :
            /\ s[p].result \in {<<>>, <<ScriptItem(p)>>}
            /\ s[p].next_page \in (IF p = Len(s) THEN {None} ELSE {0, p + 1})}

\* The remote's answers: a script, or one item and a next_page on every page.
RemoteScripts ==
    {[endless |-> FALSE, pages |-> s] : s \in ResponseScripts}
        \cup {[endless |-> TRUE, pages |-> <<>>]}

\* The response to the request for page pg.
ScriptedResponse(pg) ==
    IF remoteScript.endless
    THEN [result |-> <<ScriptItem(pg)>>, next_page |-> pg + 1]
    ELSE remoteScript.pages[pg]

\* History records of a loop.
PageCall(pg) == [e |-> "call", page |-> pg]
Sleep == [e |-> "sleep", page |-> None]

\* cases of batch_create_cases: the cases are told apart by their number.
SubmittedLists == {[i \in 1..n |-> i] : n \in 0..MaxSubmitted}

\* case_ids of batch_delete_cases: an id may be given twice.
DeletedIdLists == UNION {[1..n -> 1..2] : n \in 0..MaxDeleted}

\* e.message of a TestmoAPIError raised by _request.
ApiErrorMessages ==
    {<<"R", "e", "q", "u", "e", "s", "t", " ", "f", "a", "i", "l", "e", "d", ":", " ">>,
     <<"R", "e", "q", "u", "e", "s", "t", " ", "t", "i", "m", "e", "d", " ", "o", "u", "t">>}

\* result.get("result", []) of a create request that succeeded: every case
\* of the batch, all but the last, or none (no "result" in the response).
CreatedBy(batch) ==
    {batch, <<>>} \cup
        (IF batch # <<>> THEN {SubSeq(batch, 1, Len(batch) - 1)} ELSE {})

\* History records of the batch methods.
BulkCall(items) == [e |-> "call", items |-> items]
BulkOk(created) == [e |-> "ok", items |-> created]
BulkApiError == [e |-> "api_error", items |-> <<>>]
BulkSleep == [e |-> "sleep", items |-> <<>>]

\* The batch method has not returned.
NoBulkOut == [pending |-> TRUE]

----------------------------------------------------------------------------
(* Each specification exercises one part of the program and leaves the     *)
(* variables of the other parts at these values.                           *)

IdleIndex ==
    /\ folders = <<>>
    /\ rootId = 0
    /\ subtreeArg = {}
    /\ applied = "none"
    /\ subtreeOut = {}
    /\ pathOut = <<>>
    /\ treeOut = NoTree

IdleFilter ==
    /\ cases = <<>>
    /\ customFilters = NoneV
    /\ matchMode = "exact"
    /\ arrayFilters = NoneV
    /\ issueKey = NoneV
    /\ filterApplied = FALSE
    /\ filterOut = <<>>

IdleRequest ==
    /\ remoteFolders = <<>>
    /\ op = "none"
    /\ args = NoArgs
    /\ pc = "idle"
    /\ page = 1
    /\ acc = <<>>
    /\ allFolders = <<>>
    /\ subtreeIds = NoSubtree
    /\ fidx = 1
    /\ allCases = <<>>
    /\ folderSummary = <<>>
    /\ toolResult = NoResult
    /\ log = <<>>
    /\ walkFrom = 1
    /\ lastWalk = NoWalk
    /\ invocation = 0
    /\ remoteChanged = FALSE

IdleClient ==
    /\ globalClient = "None"
    /\ httpClient = None
    /\ closedHandles = {}
    /\ nextHandle = 1
    /\ reqPc = <<>>
    /\ reqCalls = <<>>
    /\ reqHeld = <<>>
    /\ reqOutcome = <<>>

IdleBulk ==
    /\ bulkOp = "none"
    /\ bulkInput = <<>>
    /\ bulkAt = 0
    /\ bulkPc = "idle"
    /\ collected = <<>>
    /\ errorList = <<>>
    /\ bulkOut = NoBulkOut
    /\ bulkLog = <<>>

IdleWalkers ==
    /\ remoteScript = [endless |-> FALSE, pages |-> <<>>]
    /\ walker = <<>>

IdleLoops ==
    /\ loopOf = "none"
    /\ loopDone = FALSE
    /\ iterations = 0
    /\ nodeCalls = 0
    /\ parentId = None
    /\ pathParts = <<>>
    /\ callStack = <<>>
    /\ workStack = <<>>
    /\ resultSet = {}
    /\ pushes = <<>>

----------------------------------------------------------------------------
(* Actions of SpecIndex: the folder-index functions on drawn inputs *)

InitIndex ==
    /\ folders \in FolderLists
    /\ rootId \in RootIds
    /\ subtreeArg = {}
    /\ applied = "none"
    /\ subtreeOut = {}
    /\ pathOut = <<>>
    /\ treeOut = NoTree

ApplyCollectSubtree ==
    /\ applied = "none"
    /\ applied' = "collect_subtree"
    /\ subtreeOut' = collect_subtree(folders, rootId)
    /\ UNCHANGED <<folders, rootId, subtreeArg, pathOut, treeOut>>
    /\ UNCHANGED OtherThanIndex

ApplyGetFolderPath ==
    /\ applied = "none"
    /\ applied' = "get_folder_path"
    /\ pathOut' = get_folder_path(rootId, build_folder_map(folders))
    /\ UNCHANGED <<folders, rootId, subtreeArg, subtreeOut, treeOut>>
    /\ UNCHANGED OtherThanIndex

ApplyBuildFolderTree ==
    /\ applied = "none"
    /\ \E ids \in SUBSET ({rootId} \cup {folders[i].id : i \in DOMAIN folders}) :
        /\ subtreeArg' = ids
        /\ treeOut' = build_folder_tree(folders, ids, rootId, build_folder_map(folders))
    /\ applied' = "build_folder_tree"
    /\ UNCHANGED <<folders, rootId, subtreeOut, pathOut>>
    /\ UNCHANGED OtherThanIndex

----------------------------------------------------------------------------
(* Actions of SpecFilter: the compound filter on drawn inputs *)

InitFilter ==
    /\ \E shape \in CaseLists : cases = MakeCases(shape)
    /\ customFilters \in CustomFilterArgs
    /\ matchMode \in MatchModes
    /\ arrayFilters \in ArrayFilterArgs
    /\ issueKey \in IssueKeyArgs
    /\ filterApplied = FALSE
    /\ filterOut = <<>>

ApplyClientFilters ==
    /\ ~filterApplied
    /\ filterApplied' = TRUE
    /\ filterOut' = apply_client_filters(cases, customFilters, matchMode,
                                         arrayFilters, issueKey)
    /\ UNCHANGED <<cases, customFilters, matchMode, arrayFilters, issueKey>>
    /\ UNCHANGED OtherThanFilter

----------------------------------------------------------------------------
(* Actions of Spec: one tool request, step by step.  The handler yields   *)
(* at every remote call and at every sleep; an action runs it from one     *)
(* such point to the next.                                                 *)

InitRequest ==
    /\ remoteFolders \in RemoteFolderLists
    /\ op = "none"
    /\ args = NoArgs
    /\ pc = "idle"
    /\ page = 1
    /\ acc = <<>>
    /\ allFolders = <<>>
    /\ subtreeIds = NoSubtree
    /\ fidx = 1
    /\ allCases = <<>>
    /\ folderSummary = <<>>
    /\ toolResult = NoResult
    /\ log = <<>>
    /\ walkFrom = 1
    /\ lastWalk = NoWalk
    /\ invocation = 0
    /\ remoteChanged = FALSE

\* The folder of the running iteration of `for fid in sorted(subtree_ids)`,
\* None in the project-wide search.
Fid == IF subtreeIds = NoSubtree THEN None ELSE sorted(subtreeIds)[fidx]

FolderMap == build_folder_map(allFolders)

\* The tool is invoked; the handler reads its arguments and enters
\* client.get_all_folders.
Invoke ==
    /\ pc = "idle"
    /\ \E o \in Ops : \E a \in ArgsFor(o) : op' = o /\ args' = a
    /\ pc' = "folders_call"
    /\ page' = 1
    /\ acc' = <<>>
    /\ walkFrom' = Len(log) + 1
    /\ invocation' = invocation + 1
    /\ UNCHANGED <<remoteFolders, remoteChanged, allFolders, subtreeIds, fidx, allCases,
                   folderSummary, toolResult, log, lastWalk>>
    /\ UNCHANGED OtherThanRequest

\* The invocation has ended and its caller has the result or the exception:
\* the handler's locals are gone.  The model keeps the invocation's
\* all_folders until the next invocation assigns its own, as what a cache
\* between invocations would hold.
HandlerEnds ==
    /\ pc \in {"returned", "raised"}
    /\ invocation < MaxInvocations
    /\ pc' = "idle"
    /\ op' = "none"
    /\ args' = NoArgs
    /\ page' = 1
    /\ acc' = <<>>
    /\ subtreeIds' = NoSubtree
    /\ fidx' = 1
    /\ allCases' = <<>>
    /\ folderSummary' = <<>>
    /\ toolResult' = NoResult
    /\ log' = <<>>
    /\ walkFrom' = 1
    /\ lastWalk' = NoWalk
    /\ remoteChanged' = FALSE
    /\ UNCHANGED <<remoteFolders, allFolders, invocation>>
    /\ UNCHANGED OtherThanRequest

\* Between two invocations the remote's folders change.
RemoteFoldersChange ==
    /\ pc = "idle"
    /\ invocation >= 1
    /\ ~remoteChanged
    /\ remoteFolders' \in RemoteFolderLists \ {remoteFolders}
    /\ remoteChanged' = TRUE
    /\ UNCHANGED <<op, args, pc, page, acc, allFolders, subtreeIds, fidx, allCases,
                   folderSummary, toolResult, log, walkFrom, lastWalk, invocation>>
    /\ UNCHANGED OtherThanRequest

\* get_all_folders: `await self.list_folders(project_id, page=page, per_page=100)`
ListFoldersCall ==
    /\ pc = "folders_call"
    /\ log' = Append(log, CallEvent("list_folders", args.project_id, None, page))
    /\ pc' = after_call(pc)
    /\ UNCHANGED <<remoteFolders, invocation, remoteChanged, op, args, page, acc, allFolders, subtreeIds, fidx,
                   allCases, folderSummary, toolResult, walkFrom, lastWalk>>
    /\ UNCHANGED OtherThanRequest

\* get_all_folders: a page with a next_page came back.
ListFoldersMore ==
    /\ pc = "folders_wait"
    /\ LET response == RemoteFoldersPage(page)
           step     == get_all_folders_step(acc, page, response)
       IN  /\ ~step.done
           /\ acc' = step.all
           /\ page' = step.page
           /\ log' = Append(log, RespEvent(response))
    /\ pc' = "folders_sleep"
    /\ UNCHANGED <<remoteFolders, invocation, remoteChanged, op, args, allFolders, subtreeIds, fidx, allCases,
                   folderSummary, toolResult, walkFrom, lastWalk>>
    /\ UNCHANGED OtherThanRequest

\* get_all_folders: `await asyncio.sleep(self.RATE_LIMIT_DELAY)`
ListFoldersSleep ==
    /\ pc = "folders_sleep"
    /\ log' = Append(log, SleepEvent("page"))
    /\ pc' = "folders_call"
    /\ UNCHANGED <<remoteFolders, invocation, remoteChanged, op, args, page, acc, allFolders, subtreeIds, fidx,
                   allCases, folderSummary, toolResult, walkFrom, lastWalk>>
    /\ UNCHANGED OtherThanRequest

\* What the last page of the folder listing leaves behind in every tool.
FoldersListed(response, step) ==
    /\ pc = "folders_wait"
    /\ step.done
    /\ allFolders' = fetch_all_folders(allFolders, step.all)
    /\ log' = Append(log, RespEvent(response))
    /\ lastWalk' = [api |-> "list_folders", folder_id |-> None, from |-> walkFrom,
                    to |-> Len(log) + 1, returned |-> step.all]
    /\ UNCHANGED <<remoteFolders, invocation, remoteChanged, op, args>>
    /\ UNCHANGED OtherThanRequest

\* get_folders_recursive from the last page of the folder listing to its
\* return.
GetFoldersRecursiveResolve ==
    /\ op = "get_folders_recursive"
    /\ LET response == RemoteFoldersPage(page)
           step     == get_all_folders_step(acc, page, response)
       IN  /\ FoldersListed(response, step)
           /\ toolResult' =
                 IF folder_missing(args.folder_id, build_folder_map(allFolders'))
                 THEN not_found_error(args.folder_id, args.project_id)
                 ELSE get_folders_result(allFolders', args.folder_id)
    /\ pc' = "returned"
    /\ UNCHANGED <<page, acc, subtreeIds, fidx, allCases, folderSummary, walkFrom>>

\* get_cases_recursive from the last page of the folder listing to its
\* return or into client.get_all_cases for the first folder.
GetCasesRecursiveResolve ==
    /\ op = "get_cases_recursive"
    /\ LET response == RemoteFoldersPage(page)
           step     == get_all_folders_step(acc, page, response)
       IN  /\ FoldersListed(response, step)
           /\ IF folder_missing(args.folder_id, build_folder_map(allFolders'))
              THEN /\ toolResult' = not_found_error(args.folder_id, args.project_id)
                   /\ pc' = "returned"
                   /\ UNCHANGED <<page, acc, subtreeIds, walkFrom>>
              ELSE /\ subtreeIds' = collect_subtree(allFolders', args.folder_id)
                   /\ pc' = "cases_call"
                   /\ page' = 1
                   /\ acc' = <<>>
                   /\ walkFrom' = Len(log) + 2
                   /\ UNCHANGED toolResult
    /\ fidx' = 1
    /\ allCases' = <<>>
    /\ folderSummary' = <<>>

\* search_cases_recursive from the last page of the folder listing to its
\* return or into _search_paginated.
SearchCasesRecursiveResolve ==
    /\ op = "search_cases_recursive"
    /\ LET response == RemoteFoldersPage(page)
           step     == get_all_folders_step(acc, page, response)
       IN  /\ FoldersListed(response, step)
           /\ IF args.folder_id # None
                 /\ folder_missing(args.folder_id, build_folder_map(allFolders'))
              THEN /\ toolResult' = not_found_error(args.folder_id, args.project_id)
                   /\ pc' = "returned"
                   /\ UNCHANGED <<page, acc, subtreeIds, walkFrom>>
              ELSE /\ subtreeIds' = IF args.folder_id # None
                                    THEN collect_subtree(allFolders', args.folder_id)
                                    ELSE NoSubtree
                   /\ pc' = "search_call"
                   /\ page' = 1
                   /\ acc' = <<>>
                   /\ walkFrom' = Len(log) + 2
                   /\ UNCHANGED toolResult
    /\ fidx' = 1
    /\ allCases' = <<>>
    /\ folderSummary' = <<>>

\* get_all_cases: `await self.list_cases(project_id, folder_id=folder_id, page=page, per_page=100)`
ListCasesCall ==
    /\ pc = "cases_call"
    /\ log' = Append(log, CallEvent("list_cases", args.project_id, Fid, page))
    /\ pc' = after_call(pc)
    /\ UNCHANGED <<remoteFolders, invocation, remoteChanged, op, args, page, acc, allFolders, subtreeIds, fidx,
                   allCases, folderSummary, toolResult, walkFrom, lastWalk>>
    /\ UNCHANGED OtherThanRequest

\* get_all_cases: a page with a next_page came back.
ListCasesMore ==
    /\ pc = "cases_wait"
    /\ \E response \in RemoteCasePages("list_cases", Fid, page) :
        LET step == get_all_cases_step(acc, page, response)
        IN  /\ ~step.done
            /\ acc' = step.all
            /\ page' = step.page
            /\ log' = Append(log, RespEvent(response))
    /\ pc' = "cases_sleep"
    /\ UNCHANGED <<remoteFolders, invocation, remoteChanged, op, args, allFolders, subtreeIds, fidx, allCases,
                   folderSummary, toolResult, walkFrom, lastWalk>>
    /\ UNCHANGED OtherThanRequest

\* get_all_cases: `await asyncio.sleep(self.RATE_LIMIT_DELAY)`
ListCasesSleep ==
    /\ pc = "cases_sleep"
    /\ log' = Append(log, SleepEvent("page"))
    /\ pc' = "cases_call"
    /\ UNCHANGED <<remoteFolders, invocation, remoteChanged, op, args, page, acc, allFolders, subtreeIds, fidx,
                   allCases, folderSummary, toolResult, walkFrom, lastWalk>>
    /\ UNCHANGED OtherThanRequest

\* The end of an iteration of `for fid in sorted(subtree_ids)`: the next
\* folder's pagination loop, or the return after the last folder.
NextFolderOrReturn(finished, logLen) ==
    IF fidx < Cardinality(subtreeIds)
    THEN /\ fidx' = fidx + 1
         /\ page' = 1
         /\ acc' = <<>>
         /\ walkFrom' = logLen + 1
         /\ pc' = IF op = "get_cases_recursive" THEN "cases_call" ELSE "search_call"
         /\ UNCHANGED toolResult
    ELSE /\ toolResult' = finished
         /\ pc' = "returned"
         /\ UNCHANGED <<fidx, page, acc, walkFrom>>

\* get_cases_recursive from the last page of a folder's cases to the sleep
\* between folders or, for a subtree of one folder, to the return.
GetCasesRecursiveFolderDone ==
    /\ pc = "cases_wait"
    /\ \E response \in RemoteCasePages("list_cases", Fid, page) :
        LET step     == get_all_cases_step(acc, page, response)
            absorbed == get_cases_absorb(Fid, step.all, FolderMap,
                                         args.include_folder_path, allCases,
                                         folderSummary)
        IN  /\ step.done
            /\ log' = Append(log, RespEvent(response))
            /\ lastWalk' = [api |-> "list_cases", folder_id |-> Fid, from |-> walkFrom,
                            to |-> Len(log) + 1, returned |-> step.all]
            /\ allCases' = absorbed.all_cases
            /\ folderSummary' = absorbed.folder_summary
            /\ IF Cardinality(subtreeIds) > 1
               THEN /\ pc' = "cases_folder_sleep"
                    /\ UNCHANGED <<fidx, page, acc, walkFrom, toolResult>>
               ELSE NextFolderOrReturn(
                        get_cases_result(absorbed.all_cases, subtreeIds,
                                         absorbed.folder_summary),
                        Len(log) + 1)
    /\ UNCHANGED <<remoteFolders, invocation, remoteChanged, op, args, allFolders, subtreeIds>>
    /\ UNCHANGED OtherThanRequest

\* get_cases_recursive: `if len(subtree_ids) > 1: await asyncio.sleep(...)`,
\* then the next folder or the return.
GetCasesRecursiveFolderSleep ==
    /\ pc = "cases_folder_sleep"
    /\ log' = Append(log, SleepEvent("folder"))
    /\ NextFolderOrReturn(get_cases_result(allCases, subtreeIds, folderSummary),
                          Len(log) + 1)
    /\ UNCHANGED <<remoteFolders, invocation, remoteChanged, op, args, allFolders, subtreeIds, allCases,
                   folderSummary, lastWalk>>
    /\ UNCHANGED OtherThanRequest

\* _search_paginated: `await client.search_cases(..., page=page, per_page=100)`
SearchCall ==
    /\ pc = "search_call"
    /\ log' = Append(log, CallEvent("search_cases", args.project_id, Fid, page))
    /\ pc' = after_call(pc)
    /\ UNCHANGED <<remoteFolders, invocation, remoteChanged, op, args, page, acc, allFolders, subtreeIds, fidx,
                   allCases, folderSummary, toolResult, walkFrom, lastWalk>>
    /\ UNCHANGED OtherThanRequest

\* _search_paginated: a page with a next_page came back.
SearchMore ==
    /\ pc = "search_wait"
    /\ \E response \in RemoteCasePages("search_cases", Fid, page) :
        LET step == search_paginated_step(acc, page, response)
        IN  /\ ~step.done
            /\ acc' = step.all
            /\ page' = step.page
            /\ log' = Append(log, RespEvent(response))
    /\ pc' = "search_sleep"
    /\ UNCHANGED <<remoteFolders, invocation, remoteChanged, op, args, allFolders, subtreeIds, fidx, allCases,
                   folderSummary, toolResult, walkFrom, lastWalk>>
    /\ UNCHANGED OtherThanRequest

\* _search_paginated: `await asyncio.sleep(client.RATE_LIMIT_DELAY)`
SearchSleep ==
    /\ pc = "search_sleep"
    /\ log' = Append(log, SleepEvent("page"))
    /\ pc' = "search_call"
    /\ UNCHANGED <<remoteFolders, invocation, remoteChanged, op, args, page, acc, allFolders, subtreeIds, fidx,
                   allCases, folderSummary, toolResult, walkFrom, lastWalk>>
    /\ UNCHANGED OtherThanRequest

\* Folder-scoped search from the last page of a folder's search to the sleep
\* between folders or, for a subtree of one folder, to the return.
SearchScopedFolderDone ==
    /\ pc = "search_wait"
    /\ subtreeIds # NoSubtree
    /\ \E response \in RemoteCasePages("search_cases", Fid, page) :
        LET step     == search_paginated_step(acc, page, response)
            absorbed == search_absorb(Fid, step.all, FolderMap, args, allCases,
                                      folderSummary)
        IN  /\ step.done
            /\ log' = Append(log, RespEvent(response))
            /\ lastWalk' = [api |-> "search_cases", folder_id |-> Fid,
                            from |-> walkFrom, to |-> Len(log) + 1,
                            returned |-> step.all]
            /\ allCases' = absorbed.all_cases
            /\ folderSummary' = absorbed.folder_summary
            /\ IF Cardinality(subtreeIds) > 1
               THEN /\ pc' = "search_folder_sleep"
                    /\ UNCHANGED <<fidx, page, acc, walkFrom, toolResult>>
               ELSE NextFolderOrReturn(
                        search_result(absorbed.all_cases, subtreeIds, allFolders,
                                      absorbed.folder_summary),
                        Len(log) + 1)
    /\ UNCHANGED <<remoteFolders, invocation, remoteChanged, op, args, allFolders, subtreeIds>>
    /\ UNCHANGED OtherThanRequest

\* Folder-scoped search: `if len(subtree_ids) > 1: await asyncio.sleep(...)`,
\* then the next folder or the return.
SearchScopedFolderSleep ==
    /\ pc = "search_folder_sleep"
    /\ log' = Append(log, SleepEvent("folder"))
    /\ NextFolderOrReturn(search_result(allCases, subtreeIds, allFolders,
                                        folderSummary),
                          Len(log) + 1)
    /\ UNCHANGED <<remoteFolders, invocation, remoteChanged, op, args, allFolders, subtreeIds, allCases,
                   folderSummary, lastWalk>>
    /\ UNCHANGED OtherThanRequest

\* Project-wide search from the last page of the one search to the return,
\* or to the TypeError of sorted() over None and int keys.
SearchProjectWideDone ==
    /\ pc = "search_wait"
    /\ subtreeIds = NoSubtree
    /\ \E response \in RemoteCasePages("search_cases", None, page) :
        LET step     == search_paginated_step(acc, page, response)
            matches  == project_wide_matches(step.all, args, FolderMap)
        IN  /\ step.done
            /\ log' = Append(log, RespEvent(response))
            /\ lastWalk' = [api |-> "search_cases", folder_id |-> None,
                            from |-> walkFrom, to |-> Len(log) + 1,
                            returned |-> step.all]
            /\ allCases' = matches
            /\ IF sort_raises(count_keys(matches))
               THEN /\ pc' = "raised"
                    /\ UNCHANGED <<folderSummary, toolResult>>
               ELSE /\ folderSummary' = summary_by_result(matches, FolderMap)
                    /\ toolResult' = search_result(matches, subtreeIds, allFolders,
                                                   summary_by_result(matches, FolderMap))
                    /\ pc' = "returned"
    /\ UNCHANGED <<remoteFolders, invocation, remoteChanged, op, args, page, acc, allFolders, subtreeIds, fidx,
                   walkFrom>>
    /\ UNCHANGED OtherThanRequest

\* The remote call fails (timeout, connection error, status >= 400): the
\* client raises.
RemoteCallFails ==
    /\ pc \in {"folders_wait", "cases_wait", "search_wait"}
    /\ log' = Append(log, FailEvent)
    /\ pc' = after_failure(pc)
    /\ UNCHANGED <<remoteFolders, invocation, remoteChanged, op, args, page, acc, allFolders, subtreeIds, fidx,
                   allCases, folderSummary, toolResult, walkFrom, lastWalk>>
    /\ UNCHANGED OtherThanRequest

----------------------------------------------------------------------------
(* Actions of SpecClient: tool requests that run concurrently in           *)
(* _execute_tool, each inside `async with get_client() as client`, and     *)
(* interleave at their awaits.                                             *)

Requests == 1..MaxRequests

\* Each request's tool makes between 0 and MaxCalls remote calls.
InitClient ==
    /\ globalClient = "None"
    /\ httpClient = None
    /\ closedHandles = {}
    /\ nextHandle = 1
    /\ reqPc = [r \in Requests |-> "new"]
    /\ reqCalls \in [Requests -> 0..MaxCalls]
    /\ reqHeld = [r \in Requests |-> None]
    /\ reqOutcome = [r \in Requests |-> "pending"]

\* `async with get_client() as client:` up to the tool body: get_client and
\* TestmoClient.__aenter__ run without an await.
GetClientEnter(r) ==
    /\ reqPc[r] = "new"
    /\ globalClient' = get_client(globalClient)
    /\ httpClient' = aenter(httpClient, nextHandle)
    /\ nextHandle' = nextHandle + 1
    /\ reqPc' = [reqPc EXCEPT ![r] = "in_tool"]
    /\ UNCHANGED <<closedHandles, reqCalls, reqHeld, reqOutcome>>
    /\ UNCHANGED OtherThanClient

\* _request: `await self.client.request(...)` up to the await; what it
\* raises leaves the tool body.
RequestSend(r) ==
    /\ reqPc[r] = "in_tool"
    /\ reqCalls[r] > 0
    /\ LET got == client_property(httpClient)
       IN  IF "raises" \in DOMAIN got
           THEN /\ reqOutcome' = [reqOutcome EXCEPT ![r] = "not_initialized"]
                /\ reqPc' = [reqPc EXCEPT ![r] = "exiting"]
                /\ UNCHANGED reqHeld
           ELSE IF "raises" \in DOMAIN send(got.returns, closedHandles)
           THEN /\ reqOutcome' = [reqOutcome EXCEPT ![r] = "client_closed"]
                /\ reqPc' = [reqPc EXCEPT ![r] = "exiting"]
                /\ UNCHANGED reqHeld
           ELSE /\ reqHeld' = [reqHeld EXCEPT ![r] = got.returns]
                /\ reqPc' = [reqPc EXCEPT ![r] = "awaiting"]
                /\ UNCHANGED reqOutcome
    /\ UNCHANGED <<globalClient, httpClient, closedHandles, nextHandle, reqCalls>>
    /\ UNCHANGED OtherThanClient

\* _request: the awaited call ends.
RequestReceive(r) ==
    /\ reqPc[r] = "awaiting"
    /\ \E ending \in receive(reqHeld[r], closedHandles) :
        IF ending = "response"
        THEN /\ reqCalls' = [reqCalls EXCEPT ![r] = @ - 1]
             /\ reqPc' = [reqPc EXCEPT ![r] = "in_tool"]
             /\ UNCHANGED reqOutcome
        ELSE /\ reqOutcome' = [reqOutcome EXCEPT ![r] = "client_closed"]
             /\ reqPc' = [reqPc EXCEPT ![r] = "exiting"]
             /\ UNCHANGED reqCalls
    /\ reqHeld' = [reqHeld EXCEPT ![r] = None]
    /\ UNCHANGED <<globalClient, httpClient, closedHandles, nextHandle>>
    /\ UNCHANGED OtherThanClient

\* The tool body returns after its last remote call.
ToolReturns(r) ==
    /\ reqPc[r] = "in_tool"
    /\ reqCalls[r] = 0
    /\ reqOutcome' = [reqOutcome EXCEPT ![r] = "ok"]
    /\ reqPc' = [reqPc EXCEPT ![r] = "exiting"]
    /\ UNCHANGED <<globalClient, httpClient, closedHandles, nextHandle, reqCalls,
                   reqHeld>>
    /\ UNCHANGED OtherThanClient

\* TestmoClient.__aexit__: `if self._client: await self._client.aclose()` up
\* to the await.
AexitClose(r) ==
    /\ reqPc[r] = "exiting"
    /\ IF httpClient # None
       THEN /\ closedHandles' = closedHandles \cup {httpClient}
            /\ reqPc' = [reqPc EXCEPT ![r] = "closing"]
       ELSE /\ reqPc' = [reqPc EXCEPT ![r] = "done"]
            /\ UNCHANGED closedHandles
    /\ UNCHANGED <<globalClient, httpClient, nextHandle, reqCalls, reqHeld, reqOutcome>>
    /\ UNCHANGED OtherThanClient

\* TestmoClient.__aexit__: `self._client = None` after the await.
AexitClear(r) ==
    /\ reqPc[r] = "closing"
    /\ httpClient' = None
    /\ reqPc' = [reqPc EXCEPT ![r] = "done"]
    /\ UNCHANGED <<globalClient, closedHandles, nextHandle, reqCalls, reqHeld,
                   reqOutcome>>
    /\ UNCHANGED OtherThanClient

----------------------------------------------------------------------------
(* Actions of SpecLoops: _get_folder_path, _build_folder_tree and          *)
(* _collect_subtree, one loop iteration or one call of build_node at a     *)
(* time, on folder lists that may hold a parent cycle.                     *)

InitLoops ==
    /\ folders \in LoopFolderLists
    /\ rootId \in RootIds
    /\ subtreeArg \in {ids \in SUBSET {folders[i].id : i \in DOMAIN folders} :
                          Cardinality(ids) + 1 >= Len(folders)}
    /\ applied = "none"
    /\ subtreeOut = {}
    /\ pathOut = <<>>
    /\ treeOut = NoTree

\* The frame of a call build_node(folder) that has reached _get_folder_path.
Frame(folder) ==
    [folder |-> folder, full_path |-> <<>>, children |-> <<>>, at |-> "path"]

\* The node that the innermost call returns.
NodeOf(frame) ==
    [id        |-> frame.folder.id,
     name      |-> frame.folder.name,
     parent_id |-> frame.folder.parent_id,
     full_path |-> frame.full_path,
     children  |-> frame.children]

Top == callStack[Len(callStack)]

\* callStack with its innermost frame replaced.
WithTop(frame) == [callStack EXCEPT ![Len(callStack)] = frame]

\* _get_folder_path up to its loop.
PathEnter ==
    /\ loopOf = "none"
    /\ loopOf' = "path"
    /\ LET folder_map == build_folder_map(folders)
       IN  IF rootId \notin DOMAIN folder_map
           THEN /\ loopDone' = TRUE
                /\ pathOut' = <<>>
                /\ UNCHANGED <<parentId, pathParts>>
           ELSE /\ pathParts' = <<folder_map[rootId].name>>
                /\ parentId' = folder_map[rootId].parent_id
                /\ UNCHANGED <<loopDone, pathOut>>
    /\ UNCHANGED <<folders, rootId, subtreeArg, applied, subtreeOut, treeOut>>
    /\ UNCHANGED <<iterations, nodeCalls, callStack, workStack, resultSet, pushes>>
    /\ UNCHANGED OtherThanLoops

PathIterate ==
    /\ loopOf = "path"
    /\ ~loopDone
    /\ iterations < MaxSteps
    /\ path_running(build_folder_map(folders), pathParts, parentId)
    /\ LET step == path_step(build_folder_map(folders), pathParts, parentId)
       IN  /\ pathParts' = step.path_parts
           /\ parentId' = step.parent_id
    /\ iterations' = iterations + 1
    /\ UNCHANGED idxVars
    /\ UNCHANGED <<loopOf, loopDone, nodeCalls, callStack, workStack, resultSet, pushes>>
    /\ UNCHANGED OtherThanLoops

PathReturn ==
    /\ loopOf = "path"
    /\ ~loopDone
    /\ ~path_running(build_folder_map(folders), pathParts, parentId)
    /\ loopDone' = TRUE
    /\ pathOut' = join(PathSep, pathParts)
    /\ UNCHANGED <<folders, rootId, subtreeArg, applied, subtreeOut, treeOut>>
    /\ UNCHANGED <<loopOf, iterations, nodeCalls, parentId, pathParts, callStack,
                   workStack, resultSet, pushes>>
    /\ UNCHANGED OtherThanLoops

\* _build_folder_tree up to the _get_folder_path of the root's node.
TreeEnter ==
    /\ loopOf = "none"
    /\ loopOf' = "tree"
    /\ LET folder_map == build_folder_map(folders)
       IN  IF rootId \notin DOMAIN folder_map
           THEN /\ loopDone' = TRUE
                /\ treeOut' = NoTree
                /\ UNCHANGED <<nodeCalls, callStack, parentId, pathParts>>
           ELSE /\ callStack' = <<Frame(folder_map[rootId])>>
                /\ nodeCalls' = 1
                /\ pathParts' = <<folder_map[rootId].name>>
                /\ parentId' = folder_map[rootId].parent_id
                /\ UNCHANGED <<loopDone, treeOut>>
    /\ UNCHANGED <<folders, rootId, subtreeArg, applied, subtreeOut, pathOut>>
    /\ UNCHANGED <<iterations, workStack, resultSet, pushes>>
    /\ UNCHANGED OtherThanLoops

\* An iteration of the _get_folder_path that the innermost build_node runs.
TreePathIterate ==
    /\ loopOf = "tree"
    /\ ~loopDone
    /\ Top.at = "path"
    /\ iterations < MaxSteps
    /\ path_running(build_folder_map(folders), pathParts, parentId)
    /\ LET step == path_step(build_folder_map(folders), pathParts, parentId)
       IN  /\ pathParts' = step.path_parts
           /\ parentId' = step.parent_id
    /\ iterations' = iterations + 1
    /\ UNCHANGED idxVars
    /\ UNCHANGED <<loopOf, loopDone, nodeCalls, callStack, workStack, resultSet, pushes>>
    /\ UNCHANGED OtherThanLoops

\* That _get_folder_path returns: the node has its full_path.
TreePathReturn ==
    /\ loopOf = "tree"
    /\ ~loopDone
    /\ Top.at = "path"
    /\ ~path_running(build_folder_map(folders), pathParts, parentId)
    /\ callStack' = WithTop([Top EXCEPT !.full_path = join(PathSep, pathParts),
                                        !.at = "children"])
    /\ UNCHANGED idxVars
    /\ UNCHANGED <<loopOf, loopDone, iterations, nodeCalls, parentId, pathParts,
                   workStack, resultSet, pushes>>
    /\ UNCHANGED OtherThanLoops

\* The innermost build_node calls build_node for its next child.
TreeCall ==
    /\ loopOf = "tree"
    /\ ~loopDone
    /\ Top.at = "children"
    /\ Len(callStack) < MaxDepth
    /\ LET children == GetList(tree_children_map(folders, subtreeArg), Top.folder.id)
       IN  /\ Len(Top.children) < Len(children)
           /\ LET child == children[Len(Top.children) + 1]
              IN  /\ callStack' = Append(callStack, Frame(child))
                  /\ pathParts' = <<child.name>>
                  /\ parentId' = child.parent_id
    /\ nodeCalls' = nodeCalls + 1
    /\ iterations' = 0
    /\ UNCHANGED idxVars
    /\ UNCHANGED <<loopOf, loopDone, workStack, resultSet, pushes>>
    /\ UNCHANGED OtherThanLoops

\* The innermost build_node has built all its children and returns.
TreeNodeReturn ==
    /\ loopOf = "tree"
    /\ ~loopDone
    /\ Top.at = "children"
    /\ Len(Top.children) =
           Len(GetList(tree_children_map(folders, subtreeArg), Top.folder.id))
    /\ IF Len(callStack) = 1
       THEN /\ loopDone' = TRUE
            /\ treeOut' = NodeOf(Top)
            /\ callStack' = <<>>
       ELSE /\ LET caller == callStack[Len(callStack) - 1]
               IN  callStack' =
                       [SubSeq(callStack, 1, Len(callStack) - 1)
                           EXCEPT ![Len(callStack) - 1] =
                               [caller EXCEPT !.children = Append(@, NodeOf(Top))]]
            /\ UNCHANGED <<loopDone, treeOut>>
    /\ UNCHANGED <<folders, rootId, subtreeArg, applied, subtreeOut, pathOut>>
    /\ UNCHANGED <<loopOf, iterations, nodeCalls, parentId, pathParts, workStack,
                   resultSet, pushes>>
    /\ UNCHANGED OtherThanLoops

\* _collect_subtree up to its loop.
CollectEnter ==
    /\ loopOf = "none"
    /\ loopOf' = "collect"
    /\ resultSet' = {rootId}
    /\ workStack' = <<rootId>>
    /\ pushes' = [i \in 0..AbsentId |-> IF i = rootId THEN 1 ELSE 0]
    /\ UNCHANGED idxVars
    /\ UNCHANGED <<loopDone, iterations, nodeCalls, parentId, pathParts, callStack>>
    /\ UNCHANGED OtherThanLoops

CollectIterate ==
    /\ loopOf = "collect"
    /\ ~loopDone
    /\ workStack # <<>>
    /\ iterations < MaxSteps
    /\ LET step == collect_step(collect_children_map(folders), resultSet, workStack)
           pushed == SubSeq(step.stack, Len(workStack), Len(step.stack))
       IN  /\ resultSet' = step.result
           /\ workStack' = step.stack
           /\ pushes' = [i \in DOMAIN pushes |->
                            pushes[i] + Cardinality({k \in DOMAIN pushed : pushed[k] = i})]
    /\ iterations' = iterations + 1
    /\ UNCHANGED idxVars
    /\ UNCHANGED <<loopOf, loopDone, nodeCalls, parentId, pathParts, callStack>>
    /\ UNCHANGED OtherThanLoops

CollectReturn ==
    /\ loopOf = "collect"
    /\ ~loopDone
    /\ workStack = <<>>
    /\ loopDone' = TRUE
    /\ subtreeOut' = resultSet
    /\ UNCHANGED <<folders, rootId, subtreeArg, applied, pathOut, treeOut>>
    /\ UNCHANGED <<loopOf, iterations, nodeCalls, parentId, pathParts, callStack,
                   workStack, resultSet, pushes>>
    /\ UNCHANGED OtherThanLoops

----------------------------------------------------------------------------
(* Actions of SpecWalker: get_all_folders, get_all_cases and               *)
(* _search_paginated run side by side against the same page responses.     *)

InitWalkers ==
    /\ remoteScript \in RemoteScripts
    /\ walker = [k \in Walkers |->
                    [at |-> "call", page |-> 1, all |-> <<>>, trace |-> <<>>]]

\* `result = await ...(page=page, per_page=100)`: the request goes out.
WalkerCall(k) ==
    /\ walker[k].at = "call"
    /\ walker[k].page <= MaxWalk
    /\ walker' = [walker EXCEPT ![k].at = "wait",
                                ![k].trace = Append(@, PageCall(walker[k].page))]
    /\ UNCHANGED remoteScript
    /\ UNCHANGED OtherThanWalkers

\* The response comes back: extend, then return on a null next_page, else
\* page += 1 and go to sleep.
WalkerReceives(k) ==
    /\ walker[k].at = "wait"
    /\ LET step == walker_step(k, walker[k].all, walker[k].page,
                               ScriptedResponse(walker[k].page))
       IN  walker' = [walker EXCEPT ![k].all = step.all,
                                    ![k].page = step.page,
                                    ![k].at = IF step.done THEN "returned" ELSE "sleep"]
    /\ UNCHANGED remoteScript
    /\ UNCHANGED OtherThanWalkers

\* `await asyncio.sleep(RATE_LIMIT_DELAY)` has ended.
WalkerSleeps(k) ==
    /\ walker[k].at = "sleep"
    /\ walker' = [walker EXCEPT ![k].at = "call", ![k].trace = Append(@, Sleep)]
    /\ UNCHANGED remoteScript
    /\ UNCHANGED OtherThanWalkers

----------------------------------------------------------------------------
(* Actions of SpecBulk: batch_create_cases and batch_delete_cases, from    *)
(* one await to the next.                                                  *)

InitBulk ==
    /\ \/ bulkOp = "batch_create_cases" /\ bulkInput \in SubmittedLists /\ bulkAt = 0
       \/ bulkOp = "batch_delete_cases" /\ bulkInput \in DeletedIdLists /\ bulkAt = 1
    /\ bulkPc = "loop"
    /\ collected = <<>>
    /\ errorList = <<>>
    /\ bulkOut = NoBulkOut
    /\ bulkLog = <<>>

\* The range loop of batch_create_cases has a batch left: create_cases sends
\* it, or raises ValueError for a batch that is too long.
CreateCall ==
    /\ bulkOp = "batch_create_cases"
    /\ bulkPc = "loop"
    /\ bulkAt < Len(bulkInput)
    /\ IF create_cases_rejects(batch_slice(bulkInput, bulkAt))
       THEN /\ bulkPc' = "raised"
            /\ UNCHANGED bulkLog
       ELSE /\ bulkPc' = "wait"
            /\ bulkLog' = Append(bulkLog, BulkCall(batch_slice(bulkInput, bulkAt)))
    /\ UNCHANGED <<bulkOp, bulkInput, bulkAt, collected, errorList, bulkOut>>
    /\ UNCHANGED OtherThanBulk

\* What follows the try statement: the sleep if a batch is left, else the
\* next turn of the range loop.
AfterBatch ==
    IF bulkAt + MAX_CASES_PER_REQUEST < Len(bulkInput)
    THEN /\ bulkPc' = "sleep"
         /\ UNCHANGED bulkAt
    ELSE /\ bulkPc' = "loop"
         /\ bulkAt' = bulkAt + MAX_CASES_PER_REQUEST

CreateSucceeds ==
    /\ bulkOp = "batch_create_cases"
    /\ bulkPc = "wait"
    /\ \E created \in CreatedBy(batch_slice(bulkInput, bulkAt)) :
        /\ collected' = extend(collected, created)
        /\ bulkLog' = Append(bulkLog, BulkOk(created))
    /\ AfterBatch
    /\ UNCHANGED <<bulkOp, bulkInput, errorList, bulkOut>>
    /\ UNCHANGED OtherThanBulk

CreateFailsWithApiError ==
    /\ bulkOp = "batch_create_cases"
    /\ bulkPc = "wait"
    /\ \E message \in ApiErrorMessages :
        errorList' = Append(errorList, batch_error(batch_num(bulkAt), message))
    /\ bulkLog' = Append(bulkLog, BulkApiError)
    /\ AfterBatch
    /\ UNCHANGED <<bulkOp, bulkInput, collected, bulkOut>>
    /\ UNCHANGED OtherThanBulk

\* The request raises something that is no TestmoAPIError: it leaves the
\* method.
CreateFailsOtherwise ==
    /\ bulkOp = "batch_create_cases"
    /\ bulkPc = "wait"
    /\ bulkPc' = "raised"
    /\ UNCHANGED <<bulkOp, bulkInput, bulkAt, collected, errorList, bulkOut, bulkLog>>
    /\ UNCHANGED OtherThanBulk

CreateSleeps ==
    /\ bulkOp = "batch_create_cases"
    /\ bulkPc = "sleep"
    /\ bulkLog' = Append(bulkLog, BulkSleep)
    /\ bulkAt' = bulkAt + MAX_CASES_PER_REQUEST
    /\ bulkPc' = "loop"
    /\ UNCHANGED <<bulkOp, bulkInput, collected, errorList, bulkOut>>
    /\ UNCHANGED OtherThanBulk

CreateReturns ==
    /\ bulkOp = "batch_create_cases"
    /\ bulkPc = "loop"
    /\ bulkAt >= Len(bulkInput)
    /\ bulkPc' = "returned"
    /\ bulkOut' = batch_create_result(collected, bulkInput, errorList)
    /\ UNCHANGED <<bulkOp, bulkInput, bulkAt, collected, errorList, bulkLog>>
    /\ UNCHANGED OtherThanBulk

DeleteCall ==
    /\ bulkOp = "batch_delete_cases"
    /\ bulkPc = "loop"
    /\ bulkAt <= Len(bulkInput)
    /\ bulkPc' = "wait"
    /\ bulkLog' = Append(bulkLog, BulkCall(<<bulkInput[bulkAt]>>))
    /\ UNCHANGED <<bulkOp, bulkInput, bulkAt, collected, errorList, bulkOut>>
    /\ UNCHANGED OtherThanBulk

DeleteSucceeds ==
    /\ bulkOp = "batch_delete_cases"
    /\ bulkPc = "wait"
    /\ collected' = Append(collected, bulkInput[bulkAt])
    /\ bulkLog' = Append(bulkLog, BulkOk(<<bulkInput[bulkAt]>>))
    /\ bulkPc' = "sleep"
    /\ UNCHANGED <<bulkOp, bulkInput, bulkAt, errorList, bulkOut>>
    /\ UNCHANGED OtherThanBulk

DeleteFailsWithApiError ==
    /\ bulkOp = "batch_delete_cases"
    /\ bulkPc = "wait"
    /\ \E message \in ApiErrorMessages :
        LET after == delete_failed(collected, errorList, bulkInput[bulkAt], message)
        IN  /\ collected' = after.deleted
            /\ errorList' = after.errors
    /\ bulkLog' = Append(bulkLog, BulkApiError)
    /\ bulkPc' = "sleep"
    /\ UNCHANGED <<bulkOp, bulkInput, bulkAt, bulkOut>>
    /\ UNCHANGED OtherThanBulk

DeleteFailsOtherwise ==
    /\ bulkOp = "batch_delete_cases"
    /\ bulkPc = "wait"
    /\ bulkPc' = "raised"
    /\ UNCHANGED <<bulkOp, bulkInput, bulkAt, collected, errorList, bulkOut, bulkLog>>
    /\ UNCHANGED OtherThanBulk

\* The sleep that ends every turn of the loop of batch_delete_cases.
DeleteSleeps ==
    /\ bulkOp = "batch_delete_cases"
    /\ bulkPc = "sleep"
    /\ bulkLog' = Append(bulkLog, BulkSleep)
    /\ bulkAt' = bulkAt + 1
    /\ bulkPc' = "loop"
    /\ UNCHANGED <<bulkOp, bulkInput, collected, errorList, bulkOut>>
    /\ UNCHANGED OtherThanBulk

DeleteReturns ==
    /\ bulkOp = "batch_delete_cases"
    /\ bulkPc = "loop"
    /\ bulkAt > Len(bulkInput)
    /\ bulkPc' = "returned"
    /\ bulkOut' = batch_delete_result(collected, errorList)
    /\ UNCHANGED <<bulkOp, bulkInput, bulkAt, collected, errorList, bulkLog>>
    /\ UNCHANGED OtherThanBulk

----------------------------------------------------------------------------
(* Specifications *)

NextIndex == ApplyCollectSubtree \/ ApplyGetFolderPath \/ ApplyBuildFolderTree

InitSpecIndex == IdleFilter /\ IdleRequest /\ IdleClient /\ IdleLoops /\ IdleWalkers /\ IdleBulk /\ InitIndex

SpecIndex == InitSpecIndex /\ [][NextIndex]_vars

NextFilter == ApplyClientFilters

InitSpecFilter == IdleIndex /\ IdleRequest /\ IdleClient /\ IdleLoops /\ IdleWalkers /\ IdleBulk /\ InitFilter

SpecFilter == InitSpecFilter /\ [][NextFilter]_vars

Next ==
    \/ Invoke
    \/ HandlerEnds
    \/ RemoteFoldersChange
    \/ ListFoldersCall
    \/ ListFoldersMore
    \/ ListFoldersSleep
    \/ GetFoldersRecursiveResolve
    \/ GetCasesRecursiveResolve
    \/ SearchCasesRecursiveResolve
    \/ ListCasesCall
    \/ ListCasesMore
    \/ ListCasesSleep
    \/ GetCasesRecursiveFolderDone
    \/ GetCasesRecursiveFolderSleep
    \/ SearchCall
    \/ SearchMore
    \/ SearchSleep
    \/ SearchScopedFolderDone
    \/ SearchScopedFolderSleep
    \/ SearchProjectWideDone
    \/ RemoteCallFails

Init == IdleIndex /\ IdleFilter /\ IdleClient /\ IdleLoops /\ IdleWalkers /\ IdleBulk /\ InitRequest

Spec == Init /\ [][Next]_vars

\* A tool request against a remote that answers every call.  The handler
\* is a coroutine that the event loop resumes whenever the call or the sleep
\* it awaits has ended, so a step that stays possible is taken.
NextLive ==
    \/ Invoke
    \/ ListFoldersCall
    \/ ListFoldersMore
    \/ ListFoldersSleep
    \/ GetFoldersRecursiveResolve
    \/ GetCasesRecursiveResolve
    \/ SearchCasesRecursiveResolve
    \/ ListCasesCall
    \/ ListCasesMore
    \/ ListCasesSleep
    \/ GetCasesRecursiveFolderDone
    \/ GetCasesRecursiveFolderSleep
    \/ SearchCall
    \/ SearchMore
    \/ SearchSleep
    \/ SearchScopedFolderDone
    \/ SearchScopedFolderSleep
    \/ SearchProjectWideDone

SpecLive == Init /\ [][NextLive]_vars /\ WF_vars(NextLive)

NextClient ==
    \E r \in Requests :
        \/ GetClientEnter(r)
        \/ RequestSend(r)
        \/ RequestReceive(r)
        \/ ToolReturns(r)
        \/ AexitClose(r)
        \/ AexitClear(r)

InitSpecClient == IdleIndex /\ IdleFilter /\ IdleRequest /\ IdleLoops /\ IdleWalkers /\ IdleBulk /\ InitClient

SpecClient == InitSpecClient /\ [][NextClient]_vars

NextLoops ==
    \/ PathEnter
    \/ PathIterate
    \/ PathReturn
    \/ TreeEnter
    \/ TreePathIterate
    \/ TreePathReturn
    \/ TreeCall
    \/ TreeNodeReturn
    \/ CollectEnter
    \/ CollectIterate
    \/ CollectReturn

InitSpecLoops == IdleFilter /\ IdleRequest /\ IdleClient /\ IdleLoops /\ IdleWalkers /\ IdleBulk /\ InitLoops

SpecLoops == InitSpecLoops /\ [][NextLoops]_vars

NextBulk ==
    \/ CreateCall
    \/ CreateSucceeds
    \/ CreateFailsWithApiError
    \/ CreateFailsOtherwise
    \/ CreateSleeps
    \/ CreateReturns
    \/ DeleteCall
    \/ DeleteSucceeds
    \/ DeleteFailsWithApiError
    \/ DeleteFailsOtherwise
    \/ DeleteSleeps
    \/ DeleteReturns

InitSpecBulk ==
    /\ IdleIndex /\ IdleFilter /\ IdleRequest /\ IdleClient /\ IdleLoops /\ IdleWalkers
    /\ InitBulk

SpecBulk == InitSpecBulk /\ [][NextBulk]_vars

NextWalker ==
    \E k \in Walkers :
        \/ WalkerCall(k)
        \/ WalkerReceives(k)
        \/ WalkerSleeps(k)

InitSpecWalker ==
    /\ IdleIndex /\ IdleFilter /\ IdleRequest /\ IdleClient /\ IdleLoops /\ IdleBulk
    /\ InitWalkers

SpecWalker == InitSpecWalker /\ [][NextWalker]_vars

----------------------------------------------------------------------------
(* Claims about the folder-index functions, checked under SpecIndex *)

ListedIds == {folders[i].id : i \in DOMAIN folders}

\* The normalised parent of the listed folder with id fid.
ParentOf(fid) == OrZero(build_folder_map(folders)[fid].parent_id)

\* The ids met on the way up from id x: its parent, its parent's parent, ...
\* (a forest of n folders has chains of at most n edges).
RECURSIVE AncestorsOf(_, _)
AncestorsOf(x, fuel) ==
    IF x \notin ListedIds \/ fuel = 0 THEN {}
    ELSE {ParentOf(x)} \cup AncestorsOf(ParentOf(x), fuel - 1)

\* The ids reachable from root by parent->child edges, root included.
ReachableFrom(root) ==
    {root} \cup {x \in ListedIds : root \in AncestorsOf(x, Len(folders))}

HasChildren(root) == \E i \in DOMAIN folders : OrZero(folders[i].parent_id) = root

\* C1: _collect_subtree returns the root together with exactly the ids
\* reachable from it by parent->child edges (missing/None/0 parents being
\* children of the sentinel 0); for a root without children it is {root}.
C1_SubtreeIsReachableSet ==
    applied = "collect_subtree" =>
        /\ rootId \in subtreeOut
        /\ subtreeOut = ReachableFrom(rootId)
        /\ ~HasChildren(rootId) => subtreeOut = {rootId}

\* A listed root whose subtree holds a child and a grandchild.
C1_Witness ==
    /\ applied = "collect_subtree"
    /\ rootId \in ListedIds
    /\ \E x \in subtreeOut :
        x \in ListedIds /\ ParentOf(x) \in subtreeOut \ {rootId}

\* C2 as stated: for a root that is the id of no listed folder the result is
\* {root}.
C2_AbsentRootSingleton ==
    (applied = "collect_subtree" /\ rootId \notin ListedIds) =>
        subtreeOut = {rootId}

\* C2 amended: for a root that is the id of no listed folder and that no
\* listed folder names as its (normalised) parent, the result is {root}.
C2_AbsentChildlessRootSingleton ==
    (applied = "collect_subtree" /\ rootId \notin ListedIds /\ ~HasChildren(rootId)) =>
        subtreeOut = {rootId}

\* A non-empty list, a root outside it that nothing hangs under.
C2_Witness ==
    /\ applied = "collect_subtree"
    /\ folders # <<>>
    /\ rootId \notin ListedIds
    /\ ~HasChildren(rootId)
    /\ subtreeOut = {rootId}

\* The path of a listed folder, top down: the path of its parent, the
\* separator and its own name; the name alone where the walk stops.
RECURSIVE ChainPath(_, _)
ChainPath(fid, fuel) ==
    LET f == build_folder_map(folders)[fid]
    IN  IF f.parent_id = None \/ f.parent_id = 0 \/ f.parent_id \notin ListedIds \/ fuel = 0
        THEN f.name
        ELSE ChainPath(f.parent_id, fuel - 1) \o PathSep \o f.name

\* C9: _get_folder_path of a listed folder is the names of its ancestor chain
\* and its own, root first, joined by " / ", the chain ending at the first
\* folder whose parent_id is missing/None/0 or not listed; of an unlisted id
\* it is the empty string.
C9_PathIsAncestorChain ==
    applied = "get_folder_path" =>
        pathOut = IF rootId \in ListedIds THEN ChainPath(rootId, Len(folders)) ELSE <<>>

\* A folder two levels down: its path has three names.
C9_Witness ==
    /\ applied = "get_folder_path"
    /\ rootId \in ListedIds
    /\ ParentOf(rootId) \in ListedIds
    /\ ParentOf(ParentOf(rootId)) \in ListedIds
    /\ Len(pathOut) = 3 * 2 + 2 * Len(PathSep)

\* C10: _build_folder_tree returns None iff the root is not listed; a listed
\* root without children yields a node with an empty children list.
C10_TreeNoneIffRootAbsent ==
    applied = "build_folder_tree" =>
        /\ (treeOut = NoTree) <=> (rootId \notin ListedIds)
        /\ (rootId \in ListedIds /\ ~HasChildren(rootId)) =>
               (treeOut # NoTree /\ treeOut.id = rootId /\ treeOut.children = <<>>)

\* A listed leaf root, built with a subtree set that does not hold the root.
C10_Witness ==
    /\ applied = "build_folder_tree"
    /\ rootId \in ListedIds
    /\ ~HasChildren(rootId)
    /\ rootId \notin subtreeArg
    /\ treeOut # NoTree
    /\ treeOut.children = <<>>

\* The nodes of a tree: the node itself and the nodes of its children.
RECURSIVE NodesOf(_)
NodesOf(node) ==
    {node} \cup UNION {NodesOf(node.children[i]) : i \in DOMAIN node.children}

\* The listed folders whose parent_id is nid and whose id is in subtreeArg.
DirectChildrenIn(nid) ==
    {folders[i].id : i \in {j \in DOMAIN folders :
                               folders[j].parent_id = nid /\ folders[j].id \in subtreeArg}}

\* C11: in every tree that _build_folder_tree returns, each node's children
\* are exactly the folders whose parent_id is the node's id and whose id is
\* in subtree_ids, each once, and each node's full_path is the path of its
\* id on the same index.
C11_ChildrenAndPaths ==
    (applied = "build_folder_tree" /\ treeOut # NoTree) =>
        \A node \in NodesOf(treeOut) :
            /\ {node.children[i].id : i \in DOMAIN node.children} = DirectChildrenIn(node.id)
            /\ Len(node.children) = Cardinality(DirectChildrenIn(node.id))
            /\ node.full_path = ChainPath(node.id, Len(folders))

\* A root with one child inside subtree_ids and another outside it.
C11_Witness ==
    /\ applied = "build_folder_tree"
    /\ treeOut # NoTree
    /\ Len(treeOut.children) = 1
    /\ \E i \in DOMAIN folders :
          folders[i].parent_id = rootId /\ folders[i].id \notin subtreeArg
    /\ Len(treeOut.children[1].full_path) = 2 * 2 + Len(PathSep)

----------------------------------------------------------------------------
(* Claims about the compound filter, checked under SpecFilter *)

\* Whether case c passes the filter when only the given kinds are supplied.
PassesCustomAlone(c) ==
    apply_client_filters(<<c>>, customFilters, matchMode, NoneV, NoneV) = <<c>>
PassesArrayAlone(c) ==
    apply_client_filters(<<c>>, NoneV, matchMode, arrayFilters, NoneV) = <<c>>
PassesIssueAlone(c) ==
    apply_client_filters(<<c>>, NoneV, matchMode, NoneV, issueKey) = <<c>>

\* C6: the compound filter keeps, in input order, exactly the cases that
\* pass custom_filters, array_filters and issue_key each on its own.
C6_FilterIsConjunction ==
    filterApplied =>
        filterOut = SelectSeq(cases, LAMBDA c:
            PassesCustomAlone(c) /\ PassesArrayAlone(c) /\ PassesIssueAlone(c))

\* All three kinds supplied; one case passes all, another passes the last
\* kind but fails an earlier one.
C6_Witness ==
    /\ filterApplied
    /\ TruthyV(customFilters) /\ TruthyV(arrayFilters) /\ TruthyV(issueKey)
    /\ Len(cases) = 2
    /\ filterOut = <<cases[2]>>
    /\ PassesIssueAlone(cases[1])
    /\ ~(PassesCustomAlone(cases[1]) /\ PassesArrayAlone(cases[1]))

\* Which kinds of filter the call supplies.
OnlyCustom == TruthyV(customFilters) /\ ~TruthyV(arrayFilters) /\ ~TruthyV(issueKey)
OnlyArray == ~TruthyV(customFilters) /\ TruthyV(arrayFilters) /\ ~TruthyV(issueKey)
OnlyIssue == ~TruthyV(customFilters) /\ ~TruthyV(arrayFilters) /\ TruthyV(issueKey)

\* The case's value for key k, None when it has none.
ValueOf(c, k) == IF k \in DOMAIN c THEN c[k] ELSE NoneV

\* Whether the case passes the entry k of custom_filters: substring without
\* regard to case for two strings under "contains", equality otherwise.
EntryPasses(c, k) ==
    LET expected == customFilters.v[k]
        actual   == ValueOf(c, k)
    IN  IF matchMode = "contains" /\ expected.t = "str" /\ actual.t = "str"
        THEN InStr(lower(expected.v), lower(actual.v))
        ELSE actual = expected

CustomPasses(c) == \A k \in DOMAIN customFilters.v : EntryPasses(c, k)

\* C13: under "contains" an entry of custom_filters whose expected value and
\* case value are both strings passes iff the lower-cased expected value is
\* a substring of the lower-cased case value; an entry with a non-string on
\* either side passes iff the values are equal, as under "exact"; a case
\* passes iff every entry passes.
C13_ContainsOnlyForStrings ==
    (filterApplied /\ OnlyCustom) => filterOut = SelectSeq(cases, CustomPasses)

\* "contains" with the entries custom_references: "B" and id: 1; the first
\* case holds "Ab" and passes, the second holds "Ab" too and fails on id.
C13_Witness ==
    /\ filterApplied /\ OnlyCustom
    /\ matchMode = "contains"
    /\ DOMAIN customFilters.v = {"custom_references", "id"}
    /\ Len(cases) = 2
    /\ ValueOf(cases[1], "custom_references") = StrV(<<"A", "b">>)
    /\ ValueOf(cases[2], "custom_references") = StrV(<<"A", "b">>)
    /\ filterOut = <<cases[1]>>

\* Whether the case's value for key k is a list that shares an element
\* with the acceptable values of k.
SharesElement(c, k) ==
    /\ k \in DOMAIN c
    /\ c[k].t = "list"
    /\ Range(c[k].v) \cap Range(arrayFilters.v[k].v) # {}

ArrayPasses(c) == \A k \in DOMAIN arrayFilters.v : SharesElement(c, k)

\* C14: a case passes array_filters iff for every key of the filter its
\* value is a list sharing at least one element with the key's acceptable
\* values; a case whose field is missing or is no list fails.
C14_ArrayFilterAnyOf ==
    (filterApplied /\ OnlyArray) =>
        /\ filterOut = SelectSeq(cases, ArrayPasses)
        /\ \A i \in DOMAIN cases :
              (\E k \in DOMAIN arrayFilters.v : ValueOf(cases[i], k).t # "list")
                  => cases[i] \notin Range(filterOut)

\* tags: ["x", "y"] keeps a case tagged ["y", "z"] (one of the two) and drops
\* a case whose tags field is the string "x".
C14_Witness ==
    /\ filterApplied /\ OnlyArray
    /\ arrayFilters = DictV([tags |-> ListV(<<TagX, TagY>>)])
    /\ Len(cases) = 2
    /\ ValueOf(cases[1], "tags") = StrV(<<"x">>)
    /\ ValueOf(cases[2], "tags") = ListV(<<TagY, TagZ>>)
    /\ filterOut = <<cases[2]>>

\* Whether the case's issues field is a list with an entry of the given
\* display_id.
IssuePasses(c) ==
    /\ "issues" \in DOMAIN c
    /\ c.issues.t = "list"
    /\ \E i \in DOMAIN c.issues.v :
          /\ c.issues.v[i].t = "dict"
          /\ "display_id" \in DOMAIN c.issues.v[i].v
          /\ c.issues.v[i].v.display_id = issueKey

\* C15: with a (non-empty) issue_key a case passes iff its issues field is a
\* list holding an entry whose display_id is the key; a case with a missing
\* issues field, an empty issues list or a non-list issues value fails.
C15_IssueKeyFilter ==
    (filterApplied /\ OnlyIssue) =>
        /\ filterOut = SelectSeq(cases, IssuePasses)
        /\ \A i \in DOMAIN cases :
              ValueOf(cases[i], "issues") \in {NoneV, ListV(<<>>), KeyA}
                  => cases[i] \notin Range(filterOut)

\* Two cases passed in: one linked to the issue, the other linked to another
\* issue, to none, or holding no list.
C15_Witness ==
    /\ filterApplied /\ OnlyIssue
    /\ Len(cases) = 2
    /\ ValueOf(cases[1], "issues") \in {NoneV, ListV(<<>>), KeyA}
    /\ ValueOf(cases[2], "issues") = ListV(<<Issue(issueKey)>>)
    /\ filterOut = <<cases[2]>>

\* C16: a kind of filter that is not supplied is a pass-through stage: with
\* none supplied the input list comes back unchanged, and with some supplied
\* the result is what the supplied kinds alone decide.
C16_UnsuppliedKindsPassThrough ==
    filterApplied =>
        /\ (customFilters = NoneV /\ arrayFilters = NoneV /\ issueKey = NoneV)
              => filterOut = cases
        /\ filterOut = SelectSeq(cases, LAMBDA c:
              /\ TruthyV(customFilters) => CustomPasses(c)
              /\ TruthyV(arrayFilters) => ArrayPasses(c)
              /\ TruthyV(issueKey) => IssuePasses(c))

\* No kind supplied and two cases that every kind would have dropped.
C16_Witness ==
    /\ filterApplied
    /\ customFilters = NoneV /\ arrayFilters = NoneV /\ issueKey = NoneV
    /\ Len(cases) = 2
    /\ \A i \in DOMAIN cases :
          DOMAIN cases[i] = {"id"}
    /\ filterOut = cases

\* The three stages of the compound filter, by name, and the list that
\* applying them one after another in the given order returns.
StageOf(name, case_list) ==
    CASE name = "custom" -> custom_stage(case_list, customFilters, matchMode)
      [] name = "array"  -> array_stage(case_list, arrayFilters)
      [] name = "issue"  -> issue_stage(case_list, issueKey)

InOrder(first, second, third) ==
    StageOf(third, StageOf(second, StageOf(first, cases)))

StageOrders ==
    {o \in [1..3 -> {"custom", "array", "issue"}] :
        {o[1], o[2], o[3]} = {"custom", "array", "issue"}}

\* C28: the compound filter is idempotent and independent of the order of
\* its stages: filtering its output again with the same arguments returns
\* that output, and the custom_filters, array_filters and issue_key stages
\* applied to the input in any of the six orders return that output too.
C28_IdempotentAnyStageOrder ==
    filterApplied =>
        /\ apply_client_filters(filterOut, customFilters, matchMode,
                                arrayFilters, issueKey) = filterOut
        /\ Cardinality(StageOrders) = 6
        /\ \A o \in StageOrders : InOrder(o[1], o[2], o[3]) = filterOut

\* All three filters are supplied, each of them alone drops a case, and of
\* two cases the second is the one returned.
C28_Witness ==
    /\ filterApplied
    /\ TruthyV(customFilters) /\ TruthyV(arrayFilters) /\ TruthyV(issueKey)
    /\ Len(cases) = 2
    /\ filterOut = <<cases[2]>>
    /\ Len(StageOf("custom", cases)) = 1
    /\ Len(StageOf("array", cases)) = 1
    /\ Len(StageOf("issue", cases)) = 1

----------------------------------------------------------------------------
(* Claims about a tool request, checked under Spec *)

CaseApis == {"list_cases", "search_cases"}

IsCall(i, apis) == log[i].e = "call" /\ log[i].api \in apis

IsFail(i) == log[i].e = "fail"

\* The last response of the folder listing is in the history: it is the
\* first response without a next_page.
FolderListingDone ==
    \E i \in DOMAIN log : log[i].e = "resp" /\ log[i].next_page = None

\* The ids of the folders that the folder listing's responses held.
FetchedIds ==
    UNION {{log[i].result[j].id : j \in DOMAIN log[i].result} :
              i \in {n \in DOMAIN log : n > 1 /\ log[n].e = "resp"
                                         /\ IsCall(n - 1, {"list_folders"})}}

\* C3: when the requested folder_id is not in the fetched folder index, each
\* of the three recursive tools returns {error: "Folder <folder_id> not
\* found in project <project_id>"} without raising, and the history holds no
\* case-listing and no case-search call.
C3_MissingFolderIsErrorValue ==
    (FolderListingDone /\ args.folder_id # None /\ args.folder_id \notin FetchedIds) =>
        /\ pc = "returned"
        /\ toolResult = not_found_error(args.folder_id, args.project_id)
        /\ \A i \in DOMAIN log : ~IsCall(i, CaseApis)

\* A search for a folder id that a listing of two pages does not hold.
C3_Witness ==
    /\ op = "search_cases_recursive"
    /\ args.folder_id = 0
    /\ Len(remoteFolders) > FolderPageSize
    /\ pc = "returned"
    /\ toolResult.error =
          <<"F", "o", "l", "d", "e", "r", " ", "0", " ", "n", "o", "t", " ",
            "f", "o", "u", "n", "d", " ", "i", "n", " ", "p", "r", "o", "j",
            "e", "c", "t", " ", "1">>

\* The cases that the remote returned for folder f, in the order of the
\* history up to its n-th record.
RECURSIVE RawUpTo(_, _)
RawUpTo(f, n) ==
    IF n < 2 THEN <<>>
    ELSE RawUpTo(f, n - 1) \o
         (IF log[n].e = "resp" /\ IsCall(n - 1, CaseApis) /\ log[n - 1].folder_id = f
          THEN log[n].result ELSE <<>>)

\* Whether a returned case is one the request asked for.
PostFilter(c) ==
    args.custom_filters = NoneV
    \/ \A k \in DOMAIN args.custom_filters.v :
          k \in DOMAIN c /\ c[k] = args.custom_filters.v[k]

\* How many cases folder f contributes.
Contribution(f) == Len(SelectSeq(RawUpTo(f, Len(log)), PostFilter))

RECURSIVE SumOver(_, _)
SumOver(seq, n) == IF n = 0 THEN 0 ELSE SumOver(seq, n - 1) + seq[n]

Total(r) == IF op = "get_cases_recursive" THEN r.total_cases ELSE r.total_matches

CountOf(entry) ==
    IF op = "get_cases_recursive" THEN entry.case_count ELSE entry.match_count

\* The tool returned its result structure for a subtree.
ReturnedForSubtree ==
    /\ pc = "returned"
    /\ op \in {"get_cases_recursive", "search_cases_recursive"}
    /\ subtreeIds # NoSubtree
    /\ "error" \notin DOMAIN toolResult

\* C4: in get_cases_recursive and in the folder-scoped search the reported
\* total is the length of the returned cases and the sum of the counts of
\* folder_summary; folder_summary has one entry for each subtree folder that
\* contributed a case and none for any other, in ascending folder-id order.
C4_TotalsAndSummary ==
    ReturnedForSubtree =>
        LET summary == toolResult.folder_summary
            counts  == [i \in DOMAIN summary |-> CountOf(summary[i])]
        IN  /\ Total(toolResult) = Len(toolResult.cases)
            /\ Total(toolResult) = SumOver(counts, Len(counts))
            /\ [i \in DOMAIN summary |-> summary[i].folder_id]
                  = sorted({f \in subtreeIds : Contribution(f) >= 1})
            /\ \A i \in DOMAIN summary :
                  CountOf(summary[i]) = Contribution(summary[i].folder_id)

\* A filtered search over a subtree of several folders: one folder
\* contributes two cases, another had its case filtered out.
C4_Witness ==
    /\ ReturnedForSubtree
    /\ op = "search_cases_recursive"
    /\ args.custom_filters # NoneV
    /\ Cardinality(subtreeIds) >= 2
    /\ Len(toolResult.folder_summary) = 1
    /\ toolResult.total_matches = 2
    /\ \E f \in subtreeIds : Contribution(f) = 0 /\ RawUpTo(f, Len(log)) # <<>>

\* The history of the last completed pagination loop.
Walk == SubSeq(log, lastWalk.from, lastWalk.to)

\* The number of page requests of that loop.
WalkPages == Cardinality({i \in DOMAIN Walk : Walk[i].e = "call"})

RECURSIVE PagesConcat(_)
PagesConcat(k) ==
    IF k = 0 THEN <<>> ELSE PagesConcat(k - 1) \o Walk[3 * k - 1].result

\* C5: a completed pagination loop issued its k page requests numbered
\* 1..k in order, each followed by its response; every response but the
\* last had a next_page and was followed by one rate-limit delay, the last
\* had none and is followed by no delay and no further request; the loop
\* returned the result arrays concatenated in page order.
C5_PaginationWalk ==
    lastWalk.api # "none" =>
        LET k == WalkPages
        IN  /\ k >= 1
            /\ Len(Walk) = 3 * k - 1
            /\ \A j \in 1..k :
                  /\ Walk[3 * j - 2] = CallEvent(lastWalk.api, args.project_id,
                                                 lastWalk.folder_id, j)
                  /\ Walk[3 * j - 1].e = "resp"
                  /\ (Walk[3 * j - 1].next_page = None) <=> (j = k)
                  /\ j < k => Walk[3 * j] = SleepEvent("page")
            /\ lastWalk.returned = PagesConcat(k)
            /\ lastWalk.to < Len(log) =>
                  /\ log[lastWalk.to + 1] # SleepEvent("page")
                  /\ ~(IsCall(lastWalk.to + 1, {lastWalk.api})
                       /\ log[lastWalk.to + 1].folder_id = lastWalk.folder_id)

\* A search of two pages with a case on each.
C5_Witness ==
    /\ lastWalk.api = "search_cases"
    /\ WalkPages = 2
    /\ Len(lastWalk.returned) = 2
    /\ Cardinality({i \in DOMAIN Walk : Walk[i] = SleepEvent("page")}) = 1

\* C8: when a remote call fails during get_cases_recursive or
\* search_cases_recursive the exception leaves the handler: the failed call
\* is the last record of the history (no retry, no further call) and no
\* result is returned.
C8_FailurePropagates ==
    (op \in {"get_cases_recursive", "search_cases_recursive"}
     /\ \E i \in DOMAIN log : IsFail(i)) =>
        /\ pc = "raised"
        /\ toolResult = NoResult
        /\ IsFail(Len(log))
        /\ Cardinality({i \in DOMAIN log : IsFail(i)}) = 1

\* The listing of the second folder's cases fails after the first folder's
\* cases were gathered.
C8_Witness ==
    /\ op = "get_cases_recursive"
    /\ pc = "raised"
    /\ log # <<>> /\ IsFail(Len(log))
    /\ allCases # <<>>
    /\ fidx = 2

\* The folder ids of the case-listing or case-search page requests made so
\* far, in the order they were made; those of the first pages alone.
PageRequestFolders ==
    LET made == SelectSeq(log, LAMBDA ev: ev.e = "call" /\ ev.api \in CaseApis)
    IN  [i \in DOMAIN made |-> made[i].folder_id]

FirstPageFolders ==
    LET made == SelectSeq(log, LAMBDA ev: ev.e = "call" /\ ev.api \in CaseApis
                                           /\ ev.page = 1)
    IN  [i \in DOMAIN made |-> made[i].folder_id]

\* The ids of the cases that the folders of S contribute, folder by folder
\* from the least id up.
RECURSIVE ContributedIds(_)
ContributedIds(S) ==
    IF S = {} THEN <<>>
    ELSE LET least == CHOOSE x \in S : \A y \in S : x <= y
             kept  == SelectSeq(RawUpTo(least, Len(log)), PostFilter)
         IN  [i \in DOMAIN kept |-> kept[i].id] \o ContributedIds(S \ {least})

\* The handler walks a subtree.
WalkingSubtree ==
    /\ op \in {"get_cases_recursive", "search_cases_recursive"}
    /\ subtreeIds # NoSubtree

\* C12: in get_cases_recursive and in the folder-scoped search the folders of
\* the subtree are fetched one after another in ascending id order, each by
\* one paginated fetch and none twice; at the return every folder of the
\* subtree has been fetched and the cases are the folders' results
\* concatenated in that order.
C12_FoldersInAscendingOrder ==
    WalkingSubtree =>
        /\ \A i, j \in DOMAIN FirstPageFolders :
              i < j => FirstPageFolders[i] < FirstPageFolders[j]
        /\ \A i, j \in DOMAIN PageRequestFolders :
              i < j => PageRequestFolders[i] <= PageRequestFolders[j]
        /\ {FirstPageFolders[i] : i \in DOMAIN FirstPageFolders} \subseteq subtreeIds
        /\ ReturnedForSubtree =>
              /\ {FirstPageFolders[i] : i \in DOMAIN FirstPageFolders} = subtreeIds
              /\ [i \in DOMAIN toolResult.cases |-> toolResult.cases[i].id]
                    = ContributedIds(subtreeIds)

\* A subtree of several folders, one of them without a case, that yields
\* cases of two folders.
C12_Witness ==
    /\ ReturnedForSubtree
    /\ op = "get_cases_recursive"
    /\ Cardinality(subtreeIds) = 3
    /\ \E f \in subtreeIds : RawUpTo(f, Len(log)) = <<>>
    /\ Len(toolResult.folder_summary) = 2

\* The search without folder_id.
ProjectWide == op = "search_cases_recursive" /\ args.folder_id = None

\* A case without the annotation of the handler.
Strip(c) == [k \in DOMAIN c \ {"_folder_name", "_folder_path"} |-> c[k]]

FirstPageSearches ==
    {i \in DOMAIN log : IsCall(i, {"search_cases"}) /\ log[i].page = 1}

\* C17: without folder_id, search_cases_recursive makes one paginated search
\* whose page requests all carry folder_id None, no search or listing of a
\* single folder, and returns the concatenation of all pages filtered once,
\* the filters seeing the cases as the remote sent them, before annotation.
C17_ProjectWideSingleSearch ==
    ProjectWide =>
        /\ \A i \in DOMAIN log :
              IsCall(i, CaseApis) =>
                  log[i].api = "search_cases" /\ log[i].folder_id = None
        /\ Cardinality(FirstPageSearches) <= 1
        /\ pc = "returned" =>
              /\ Cardinality(FirstPageSearches) = 1
              /\ lastWalk.api = "search_cases"
              /\ \A i \in DOMAIN log :
                    IsCall(i, CaseApis) => (lastWalk.from <= i /\ i <= lastWalk.to)
              /\ [i \in DOMAIN toolResult.cases |-> Strip(toolResult.cases[i])]
                    = SelectSeq(lastWalk.returned, PostFilter)

\* A search of two pages filtered by {"_folder_name": "root"}: the two cases
\* found have no folder and would be annotated "root", and none is returned.
C17_Witness ==
    /\ ProjectWide
    /\ pc = "returned"
    /\ args.custom_filters = RootNameFilter
    /\ WalkPages = 2
    /\ Len(lastWalk.returned) = 2
    /\ \A i \in DOMAIN lastWalk.returned : "folder_id" \notin DOMAIN lastWalk.returned[i]
    /\ toolResult.cases = <<>>

\* The project-wide search has fetched its last page.
ProjectWideFetched == ProjectWide /\ lastWalk.api = "search_cases"

RemoteIds == {remoteFolders[i].id : i \in DOMAIN remoteFolders}

\* The folder of the remote with the given id.
RemoteFolder(fid) ==
    remoteFolders[CHOOSE i \in DOMAIN remoteFolders : remoteFolders[i].id = fid]

\* The path of a folder of the remote, top down.
RECURSIVE RemotePath(_)
RemotePath(fid) ==
    LET f == RemoteFolder(fid)
    IN  IF f.parent_id \in RemoteIds
        THEN RemotePath(f.parent_id) \o PathSep \o f.name
        ELSE f.name

\* Whether the case's own folder_id is that of a folder of the index.
InIndex(c) ==
    ValueOf(c, "folder_id").t = "int" /\ ValueOf(c, "folder_id").v \in RemoteIds

\* C18: in the project-wide search a case whose folder_id is in the index is
\* annotated with that folder's name and path, a case whose folder_id is
\* missing, None, 0 or not in the index is annotated with "root" and "", and
\* no such case makes the handler raise.
C18_UnknownFoldersAnnotateRoot ==
    ProjectWideFetched =>
        /\ pc = "returned"
        /\ \A i \in DOMAIN toolResult.cases :
              LET c == toolResult.cases[i]
              IN  IF InIndex(c)
                  THEN /\ c["_folder_name"] = StrV(RemoteFolder(c.folder_id.v).name)
                       /\ c["_folder_path"] = StrV(RemotePath(c.folder_id.v))
                  ELSE /\ c["_folder_name"] = StrV(<<"r", "o", "o", "t">>)
                       /\ c["_folder_path"] = StrV(<<>>)

\* The folder id under which a returned case is counted: its folder_id, 0
\* when it has none.
KeyOf(c) == IF "folder_id" \in DOMAIN c THEN c.folder_id ELSE IntV(0)

\* The folder id of a summary entry as a case would carry it.
EntryKey(entry) == IF entry.folder_id = None THEN NoneV ELSE IntV(entry.folder_id)

ReturnedKeys == {KeyOf(toolResult.cases[i]) : i \in DOMAIN toolResult.cases}

\* C19: the folder_summary of a project-wide search groups the returned
\* (already filtered) cases by folder id: one entry per distinct folder id
\* among them and no other, in ascending folder-id order, each match_count
\* the number of returned cases of that folder id, the match_counts summing
\* to total_matches.
C19_SummaryGroupsReturnedCases ==
    (ProjectWideFetched /\ pc = "returned") =>
        LET summary == toolResult.folder_summary
            counts  == [i \in DOMAIN summary |-> summary[i].match_count]
        IN  /\ {EntryKey(summary[i]) : i \in DOMAIN summary} = ReturnedKeys
            /\ Len(summary) = Cardinality(ReturnedKeys)
            /\ \A i, j \in DOMAIN summary :
                  i < j => summary[i].folder_id < summary[j].folder_id
            /\ \A i \in DOMAIN summary :
                  summary[i].match_count =
                      Cardinality({j \in DOMAIN toolResult.cases :
                                      KeyOf(toolResult.cases[j]) = EntryKey(summary[i])})
            /\ SumOver(counts, Len(counts)) = toolResult.total_matches

\* Two cases found, in folder 1 of the index and in an unlisted folder; the
\* filter drops the case of folder 1 and the summary has the other folder
\* alone.
C19_Witness ==
    /\ ProjectWideFetched /\ pc = "returned"
    /\ args.custom_filters = DictV([custom_references |-> IntV(1)])
    /\ 1 \in RemoteIds
    /\ Len(lastWalk.returned) = 2
    /\ KeyOf(lastWalk.returned[1]) = IntV(1)
    /\ Len(toolResult.folder_summary) = 1
    /\ toolResult.folder_summary[1].folder_id = AbsentId

\* Whether folder fid of the remote is the folder root or lies below it.
RECURSIVE IsUnder(_, _)
IsUnder(fid, root) ==
    \/ fid = root
    \/ /\ fid \in RemoteIds
       /\ RemoteFolder(fid).parent_id \in RemoteIds
       /\ IsUnder(RemoteFolder(fid).parent_id, root)

RemoteSubtree(root) == {fid \in RemoteIds : IsUnder(fid, root)}

\* C20: total_folders_searched is the size of the subtree in
\* get_cases_recursive and in the folder-scoped search and the number of
\* folders of the folder listing in the project-wide search, whatever the
\* number of cases fetched or kept.
C20_TotalFoldersSearched ==
    (pc = "returned" /\ "total_folders_searched" \in DOMAIN toolResult) =>
        toolResult.total_folders_searched =
            IF args.folder_id # None
            THEN Cardinality(RemoteSubtree(args.folder_id))
            ELSE Len(remoteFolders)

\* A folder-scoped search over a subtree of two folders of three whose
\* cases were all filtered out.
C20_Witness ==
    /\ pc = "returned"
    /\ op = "search_cases_recursive"
    /\ args.folder_id # None
    /\ Len(remoteFolders) = 3
    /\ "total_folders_searched" \in DOMAIN toolResult
    /\ toolResult.total_folders_searched = 2
    /\ toolResult.cases = <<>>
    /\ \E f \in RemoteSubtree(args.folder_id) : RawUpTo(f, Len(log)) # <<>>

\* The remote calls of the request that have not ended.
Outstanding ==
    {i \in DOMAIN log : log[i].e = "call"
                         /\ (i = Len(log) \/ log[i + 1].e \notin {"resp", "fail"})}

\* C21: the remote calls of a request are strictly sequential: at most one
\* is outstanding at any moment, and a call is issued only after the call
\* before it has ended; no two pages and no two folders are fetched at once.
C21_OneCallAtATime ==
    /\ Cardinality(Outstanding) <= 1
    /\ \A i \in Outstanding : i = Len(log)
    /\ \A i \in DOMAIN log :
          (log[i].e = "call" /\ i > 1) => log[i - 1].e \in {"resp", "sleep"}

\* The second page of the second folder's search is outstanding, all calls
\* before it have ended.
C21_Witness ==
    /\ op = "search_cases_recursive"
    /\ pc = "search_wait"
    /\ subtreeIds # NoSubtree
    /\ fidx = 2
    /\ page = 2
    /\ Outstanding = {Len(log)}

\* The delays between folders made so far.
FolderSleeps == {i \in DOMAIN log : log[i] = SleepEvent("folder")}

\* C22: in get_cases_recursive and in the folder-scoped search a subtree of
\* more than one folder has one inter-folder delay between each two
\* consecutive folder fetches, |subtree| - 1 in all and none after the last
\* folder; a subtree of one folder has none.
C22_DelaysBetweenFolders ==
    ReturnedForSubtree =>
        /\ Cardinality(FolderSleeps) = Cardinality(subtreeIds) - 1
        /\ Len(log) \notin FolderSleeps

FirstPageListings ==
    {i \in DOMAIN log : IsCall(i, {"list_folders"}) /\ log[i].page = 1}

----------------------------------------------------------------------------
(* Claims about the shared client handle, checked under SpecClient *)

\* The requests inside `async with get_client()`, before __aexit__.
Using == {r \in Requests : reqPc[r] \in {"in_tool", "awaiting"}}

\* C7: with two or more requests in flight the shared handle is only read
\* after construction: while a request is using it, it is initialized and
\* open, the call it has in flight is on an open handle, and no request
\* fails because the handle was missing or closed.
C7_SharedHandleStaysUsable ==
    /\ \A r \in Using : httpClient # None /\ httpClient \notin closedHandles
    /\ \A r \in Requests : reqHeld[r] \notin closedHandles
    /\ \A r \in Requests : reqOutcome[r] \notin {"not_initialized", "client_closed"}

----------------------------------------------------------------------------
(* Claims about the loops of the folder index, checked under SpecLoops *)

\* Whether the listed folder x is its own ancestor.
OnCycle(x) == x \in ListedIds /\ x \in AncestorsOf(x, Len(folders))

\* Whether the walk up from the listed folder x never ends: x is on a parent
\* cycle or below one (a walk that ends does so within Len(folders) steps).
WalksForever(x) ==
    /\ x \in ListedIds
    /\ ~ChainEnds(build_folder_map(folders),
                  build_folder_map(folders)[x].parent_id, Len(folders))

\* The loop of _get_folder_path is running and its condition holds.
PathLoopGoesOn ==
    /\ ~loopDone
    /\ path_running(build_folder_map(folders), pathParts, parentId)

\* C24 as stated, for buildTree: from a root on a parent cycle, with the
\* cycle's folders in subtree_ids, the recursion of build_node goes on
\* without bound, so that where the model stops following it, it does so at
\* the depth bound.
C24_TreeRecursesOnCycle ==
    (/\ loopOf = "tree"
     /\ OnCycle(rootId)
     /\ AncestorsOf(rootId, Len(folders)) \subseteq subtreeArg
     /\ iterations = MaxSteps) =>
        Len(callStack) = MaxDepth

\* C24: there is no cycle guard.  path() of a folder on or below a parent
\* cycle never leaves its loop.  buildTree from such a root never returns
\* either, because the first build_node is still inside path() for the
\* root: no recursive call is made.  When the walk up from the folder ends,
\* path() makes fewer iterations than there are folders, and buildTree makes
\* at most as many calls of build_node, nested at most as deep, as there are
\* folders.
C24_NoCycleGuard ==
    /\ (loopOf = "path" /\ WalksForever(rootId)) => PathLoopGoesOn
    /\ (loopOf = "tree" /\ WalksForever(rootId)) =>
           /\ PathLoopGoesOn
           /\ nodeCalls = 1
           /\ Len(callStack) = 1
           /\ Top.at = "path"
    /\ (loopOf \in {"path", "tree"} /\ rootId \in ListedIds /\ ~WalksForever(rootId)) =>
           /\ iterations < Len(folders)
           /\ nodeCalls <= Len(folders)
           /\ Len(callStack) <= Len(folders)

\* buildTree from a root on a cycle of three folders, all in subtree_ids:
\* the walk up from the root has been followed for MaxSteps iterations.
C24_Witness ==
    /\ loopOf = "tree"
    /\ OnCycle(rootId)
    /\ Cardinality(AncestorsOf(rootId, Len(folders))) = 3
    /\ AncestorsOf(rootId, Len(folders)) \subseteq subtreeArg
    /\ iterations = MaxSteps
    /\ Len(pathParts) = MaxSteps + 1
    /\ Len(callStack) = 1

\* Whether a parent cycle is reachable from root by parent->child edges.
CycleReachable(root) == \E x \in ReachableFrom(root) : OnCycle(x)

\* The parent edges that lead to id x from a folder reachable from root.
EdgesInto(x, root) ==
    {i \in DOMAIN folders :
        folders[i].id = x /\ OrZero(folders[i].parent_id) \in ReachableFrom(root)}

\* The folder list in every order.
Reorderings ==
    {[i \in DOMAIN folders |-> folders[f[i]]] : f \in Permutations(DOMAIN folders)}

\* C25: _collect_subtree returns if and only if no parent cycle is reachable
\* from root_id by child edges: with such a cycle its stack never empties,
\* without one it makes one iteration per reachable id.  When it returns,
\* each id has been pushed once for the root and once per parent edge
\* leading to it from a reachable folder, and the set returned is the one
\* returned for the folder list in any other order.
C25_CollectTerminatesIffAcyclic ==
    loopOf = "collect" =>
        /\ CycleReachable(rootId) => (~loopDone /\ workStack # <<>>)
        /\ ~CycleReachable(rootId) =>
               /\ iterations <= Cardinality(ReachableFrom(rootId))
               /\ iterations < MaxSteps
               /\ (workStack = <<>>) => iterations = Cardinality(ReachableFrom(rootId))
        /\ loopDone =>
               /\ subtreeOut = ReachableFrom(rootId)
               /\ \A x \in DOMAIN pushes :
                      pushes[x] = (IF x = rootId THEN 1 ELSE 0)
                                      + Cardinality(EdgesInto(x, rootId))
               /\ \A s \in Reorderings : collect_subtree(s, rootId) = subtreeOut

\* The traversal from a root on a cycle of two folders with a third folder
\* below the cycle, followed for MaxSteps iterations: the stack is not empty
\* and the root has been pushed again.
C25_Witness ==
    /\ loopOf = "collect"
    /\ OnCycle(rootId)
    /\ Cardinality(AncestorsOf(rootId, Len(folders))) = 2
    /\ Cardinality(ReachableFrom(rootId)) = 3
    /\ iterations = MaxSteps
    /\ workStack # <<>>
    /\ pushes[rootId] >= 2

----------------------------------------------------------------------------
(* Claims about a tool request against a remote that never fails, checked  *)
(* under SpecLive                                                          *)

\* C26: with a remote that never fails and ends every listing and search
\* after finitely many pages, every invocation eventually returns a result.
C26_EveryInvocationReturns == [](pc # "idle" => <>(pc = "returned"))

\* Every invocation eventually ends, by returning or by raising.
C26_EveryInvocationEnds == [](pc # "idle" => <>(pc \in {"returned", "raised"}))

\* With a remote that never fails only the project-wide search raises.
C26_OnlyProjectWideSearchRaises ==
    pc = "raised" => (op = "search_cases_recursive" /\ args.folder_id = None)

----------------------------------------------------------------------------
(* Claims about the pagination loops, checked under SpecWalker *)

\* What a walk over the first n pages of the script has issued and slept:
\* page 1, a delay, page 2, ..., page n, no delay after it.
RECURSIVE WalkTrace(_)
WalkTrace(n) ==
    IF n = 1 THEN <<PageCall(1)>>
    ELSE WalkTrace(n - 1) \o <<Sleep, PageCall(n)>>

\* The results of the first n pages of the script, concatenated.
RECURSIVE ScriptConcat(_)
ScriptConcat(n) ==
    IF n = 0 THEN <<>> ELSE ScriptConcat(n - 1) \o remoteScript.pages[n].result

\* C26, last sentence: against a remote that answers a non-null next_page on
\* every page no loop returns, and every response is followed by a delay and
\* the request for the next page.
C26_EndlessRemoteNeverStops ==
    remoteScript.endless =>
        \A k \in Walkers :
            /\ walker[k].at # "returned"
            /\ walker[k].at = "sleep" => walker[k].page <= MaxWalk + 1
            /\ walker[k].at = "call" =>
                   walker[k].trace = IF walker[k].page = 1 THEN <<>>
                                     ELSE Append(WalkTrace(walker[k].page - 1), Sleep)

\* C27: the three pagination loops are the same walker.  Against the same
\* page responses, two loops that have issued and slept equally often stand
\* at the same point with the same page number, the same accumulated list
\* and the same history of page requests and delays; a loop that returns
\* has requested pages 1..n with a delay between consecutive requests and
\* none after the last, and returns the pages' results concatenated.
C27_SameWalker ==
    /\ \A k1, k2 \in Walkers :
           (/\ Len(walker[k1].trace) = Len(walker[k2].trace)
            /\ (walker[k1].at = "wait") = (walker[k2].at = "wait")
            /\ (walker[k1].at = "call") = (walker[k2].at = "call")) =>
               walker[k1] = walker[k2]
    /\ \A k \in Walkers :
           walker[k].at = "returned" =>
               /\ walker[k].trace = WalkTrace(Len(remoteScript.pages))
               /\ walker[k].all = ScriptConcat(Len(remoteScript.pages))

\* All three loops have returned after three pages, the first of which
\* named 0 as next_page, with an item on every page.
C27_Witness ==
    /\ ~remoteScript.endless
    /\ Len(remoteScript.pages) = 3
    /\ remoteScript.pages[1].next_page = 0
    /\ \A k \in Walkers :
           /\ walker[k].at = "returned"
           /\ Len(walker[k].all) = 3
           /\ Len(walker[k].trace) = 5

----------------------------------------------------------------------------
(* Claims about the batch methods, checked under SpecBulk *)

\* The requests sent so far and the outcomes that came back, in order.
BulkCalls == SelectSeq(bulkLog, LAMBDA r : r.e = "call")
BulkOutcomes == SelectSeq(bulkLog, LAMBDA r : r.e \in {"ok", "api_error"})

\* How many of the first j outcomes are API errors.
ApiErrorsUpTo(j) ==
    Cardinality({k \in 1..j : BulkOutcomes[k].e = "api_error"})

\* The items of the first j records, concatenated.
RECURSIVE ItemsUpTo(_, _)
ItemsUpTo(records, j) ==
    IF j = 0 THEN <<>> ELSE ItemsUpTo(records, j - 1) \o records[j].items

\* The batches of the input: consecutive runs of 100 cases, the last one
\* the rest.
NumBatches == (Len(bulkInput) + 99) \div 100
ExpectedBatch(j) ==
    [k \in 1..(IF 100 * j <= Len(bulkInput) THEN 100 ELSE Len(bulkInput) - 100 * (j - 1)) |->
        bulkInput[100 * (j - 1) + k]]

\* Whether the text begins with the prefix.
StartsWith(text, prefix) ==
    Len(text) >= Len(prefix) /\ SubSeq(text, 1, Len(prefix)) = prefix

\* The entries of the errors field of a result: none for None.
ErrorEntries(out) == IF out.errors = NoneV THEN <<>> ELSE out.errors.v

\* C29: batch_create_cases sends the input as consecutive batches of at
\* most 100 cases in input order, one create request per batch.  A batch
\* that fails with an API error adds one entry, naming the batch, to errors
\* and never ends the method: it returns only after every batch was sent.
\* On return total_submitted is the input length, result holds the cases
\* returned by the batches that succeeded, total_created is their number,
\* and errors is None if and only if no batch failed.
C29_BatchCreate ==
    bulkOp = "batch_create_cases" =>
        /\ Len(BulkCalls) <= NumBatches
        /\ \A j \in DOMAIN BulkCalls :
               /\ BulkCalls[j].items = ExpectedBatch(j)
               /\ Len(BulkCalls[j].items) \in 1..100
        /\ Len(errorList) = ApiErrorsUpTo(Len(BulkOutcomes))
        /\ \A j \in DOMAIN BulkOutcomes :
               BulkOutcomes[j].e = "api_error" =>
                   StartsWith(errorList[ApiErrorsUpTo(j)],
                              <<"B", "a", "t", "c", "h", " ">> \o str(j) \o <<":", " ">>)
        /\ bulkPc = "raised" => Len(BulkOutcomes) < Len(BulkCalls)
        /\ bulkPc = "returned" =>
               /\ Len(BulkCalls) = NumBatches
               /\ Len(BulkOutcomes) = NumBatches
               /\ ItemsUpTo(BulkCalls, NumBatches) = bulkInput
               /\ bulkOut.total_submitted = Len(bulkInput)
               /\ bulkOut.result = ItemsUpTo(BulkOutcomes, NumBatches)
               /\ bulkOut.total_created = Len(ItemsUpTo(BulkOutcomes, NumBatches))
               /\ (bulkOut.errors = NoneV) <=> (ApiErrorsUpTo(NumBatches) = 0)
               /\ Len(ErrorEntries(bulkOut)) = ApiErrorsUpTo(NumBatches)

\* 201 cases in three batches: the first succeeds, the second fails with an
\* API error, the third, of one case, is sent and succeeds.
C29_Witness ==
    /\ bulkOp = "batch_create_cases"
    /\ bulkPc = "returned"
    /\ Len(bulkInput) = 201
    /\ Len(BulkCalls) = 3
    /\ BulkOutcomes[2].e = "api_error"
    /\ bulkOut.total_submitted = 201
    /\ bulkOut.total_created = 101
    /\ bulkOut.result[101] = 201
    /\ Len(ErrorEntries(bulkOut)) = 1

\* The ids among the first j whose deletion succeeded, in input order.
RECURSIVE SucceededUpTo(_)
SucceededUpTo(j) ==
    IF j = 0 THEN <<>>
    ELSE SucceededUpTo(j - 1) \o
             (IF BulkOutcomes[j].e = "ok" THEN <<bulkInput[j]>> ELSE <<>>)

\* C30: batch_delete_cases attempts the deletion of the given ids one by
\* one in input order, each occurrence once, and a deletion that fails with
\* an API error never ends the method: it returns only after every id was
\* attempted.  On return deleted lists the ids whose deletion succeeded, in
\* input order, total_deleted is its length, and the deleted ids and the
\* error entries together are as many as the ids given.
C30_BatchDelete ==
    bulkOp = "batch_delete_cases" =>
        /\ Len(BulkCalls) <= Len(bulkInput)
        /\ \A j \in DOMAIN BulkCalls : BulkCalls[j].items = <<bulkInput[j]>>
        /\ bulkPc = "raised" => Len(BulkOutcomes) < Len(BulkCalls)
        /\ bulkPc = "returned" =>
               /\ Len(BulkCalls) = Len(bulkInput)
               /\ Len(BulkOutcomes) = Len(bulkInput)
               /\ bulkOut.deleted = SucceededUpTo(Len(bulkInput))
               /\ bulkOut.total_deleted = Len(bulkOut.deleted)
               /\ Len(bulkOut.deleted) + Len(ErrorEntries(bulkOut)) = Len(bulkInput)

\* The ids 1, 1, 2: the first deletion succeeds, the second fails with an
\* API error, the third is attempted and succeeds.
C30_Witness ==
    /\ bulkOp = "batch_delete_cases"
    /\ bulkPc = "returned"
    /\ bulkInput = <<1, 1, 2>>
    /\ BulkOutcomes[2].e = "api_error"
    /\ bulkOut.deleted = <<1, 2>>
    /\ bulkOut.total_deleted = 2
    /\ Len(ErrorEntries(bulkOut)) = 1

=============================================================================
